---- MODULE Spec2Model ----
(***************************************************************************)
(* git-big: the content-addressed tier chain (working tree, anchors,       *)
(* local cache, depot) as driven by the commands of git_big/main.py.       *)
(*                                                                         *)
(* One repository is active at a time.  A state holds its manifest         *)
(* (.gitbig), its working tree, the anchors directory, the cache objects,  *)
(* the depot bucket and the depot presence index.  Files are modelled      *)
(* down to the inode: a hardlink is a second name of one inode, so file    *)
(* permissions and content are shared by every name, as on disk.           *)
(*                                                                         *)
(* Every action is one whole CLI invocation (App() construction, the       *)
(* command body, the trailing _save_config), or one step of the user or    *)
(* of git around the tool.                                                 *)
(*                                                                         *)
(* Inputs left out of the model: directories as `add` arguments (_walk),   *)
(* several sources for `cp`/`mv`, a destination outside the repository,    *)
(* and `pull --extra`.  Parent directories of the modelled paths exist.    *)
(***************************************************************************)
EXTENDS Naturals, Sequences, FiniteSets, TLC

\* ------------------------------------------------------------------ bounds

\* Number of inodes of the file system holding repository, anchors and cache.
MaxInodes == 4

Inos == 1 .. MaxInodes

\* ------------------------------------------------------- contents, digests

\* File contents: the two fixtures of the test suite.
Contents == {"hello", "world"}

NoDigest == "none"

\* sha256 over the whole byte stream, on the fixtures (digests abbreviated).
compute_digest(c) ==
    CASE c = "hello" -> "2cf24dba"
      [] c = "world" -> "486ea462"
      [] OTHER -> NoDigest

Digests == {compute_digest(c) : c \in Contents}

\* ------------------------------------------------------------------- paths

\* Repository-relative paths, as sequences of components.
P_bar == <<"bar">>
P_dirfoo == <<"dir", "foo">>

\* sorted(self.config.files.keys()): "bar" < "dir/foo".
SortedPaths == <<P_bar, P_dirfoo>>

Paths == {SortedPaths[i] : i \in 1 .. Len(SortedPaths)}

dirname(p) == SubSeq(p, 1, Len(p) - 1)

\* Entry.anchor_path, relative to the working root (the two shard
\* directories digest[:2]/digest[2:4] are a function of the digest).
anchor_path(d) == <<".gitbig-anchors", d>>

RECURSIVE CommonPrefixLen(_, _)
CommonPrefixLen(a, b) ==
    IF a = <<>> \/ b = <<>> \/ Head(a) # Head(b) THEN 0
    ELSE 1 + CommonPrefixLen(Tail(a), Tail(b))

Ups(n) == [i \in 1 .. n |-> ".."]

\* os.path.relpath(path, start)
relpath(path, start) ==
    LET k == CommonPrefixLen(path, start)
    IN  Ups(Len(start) - k) \o SubSeq(path, k + 1, Len(path))

\* A link target that is not taken relative to the link's directory.
symlink_path_abs(p, d) == anchor_path(d)

\* Entry.symlink_path
symlink_path(p, d) == relpath(anchor_path(d), dirname(p))

\* The path a symlink's target names, seen from the link's directory.
RECURSIVE normpath(_, _)
normpath(base, rest) ==
    IF rest = <<>> THEN base
    ELSE IF Head(rest) = ".."
         THEN normpath(IF base = <<>> THEN <<>> ELSE SubSeq(base, 1, Len(base) - 1),
                       Tail(rest))
         ELSE normpath(Append(base, Head(rest)), Tail(rest))

\* ------------------------------------------------------------- file system

NoNode == [kind |-> "none", ino |-> 0, target |-> <<>>]
FileNode(i) == [kind |-> "file", ino |-> i, target |-> <<>>]
LinkNode(t) == [kind |-> "link", ino |-> 0, target |-> t]

FreeInode == [content |-> "free", writable |-> FALSE]

VARIABLES
    IS_WIN,      \* platform.system() == 'Windows'
    has_depot,   \* a depot URL is configured (App.depot is not None)
    files,       \* RepoConfig.files as persisted in .gitbig: path -> digest
    working,     \* working tree: path -> node
    inodes,      \* inode -> [content, writable]
    anchors,     \* .gitbig-anchors: digest -> inode (0: no such file)
    cache,       \* <cache_dir>/objects: digest -> inode (0: no such file)
    depot,       \* bucket objects/<digest>: digest -> content ("none": absent)
    index,       \* <cache_dir>/index: digests recorded as present in the depot
    pushed,      \* history: the manifest as it stands was pushed successfully
    fresh,       \* history: this is a clone of a pushed commit, not yet modified
    last,        \* history: the last step [cmd, status], see Step
    history,     \* git history: the text of .gitbig in each commit
    scan,        \* App._find_reachable_objects: [pc, objects, todo, reads, reachable]
    merge,       \* the merge driver: [pc, ancestor, current, other, ours]
    procs,       \* the git-big processes: process -> [pc, launcher]
    lock,        \* <cache_dir>/lock: the process that holds it (0: nobody)
    session,     \* a run of `git big filter process`, see FilterStart
    git_uuid,    \* git config git-big.uuid of the clone (0: not set)
    minted,      \* how many values uuid.uuid4() has given so far
    refs,        \* bucket refs/<uuid>: the uuids that have a blob
    refs_used,   \* history: <<command, uuid>> of this clone's calls for its refs blob
    atom,        \* a run of atomic_open beside a reader: [pc, which, old, dst, tmp, xdev, seen]
    net          \* the connection to the depot: "up", or "cut" (transfers break off)

repo == <<IS_WIN, has_depot, files, working, inodes, anchors, cache, depot,
          index, pushed, fresh, last>>

scanv == <<history, scan>>

\* What the commands on the working tree leave alone.
lockv == <<procs, lock>>

uuidv == <<git_uuid, minted, refs, refs_used>>

aux == <<scanv, merge, lockv, session, uuidv, atom, net>>

\* What the scan, the merge driver, the launchers and the filter leave alone.
exceptScan == <<repo, merge, lockv, session, uuidv, atom, net>>
exceptMerge == <<repo, scanv, lockv, session, uuidv, atom, net>>
exceptLock == <<repo, scanv, merge, session, uuidv, atom, net>>
exceptFilter == <<repo, scanv, merge, lockv, uuidv, atom, net>>
exceptUuid == <<repo, scanv, merge, lockv, session, atom, net>>
exceptAtom == <<repo, scanv, merge, lockv, session, uuidv, net>>
exceptNet == <<repo, scanv, merge, lockv, session, uuidv, atom>>

vars == <<repo, aux>>

\* The state an invocation works on, and what it leaves behind.  log is the
\* sequence of calls the invocation makes to the storage driver.
Cur == [files |-> files, working |-> working, inodes |-> inodes,
        anchors |-> anchors, cache |-> cache, depot |-> depot,
        index |-> index, status |-> "ok", log |-> <<>>, tmp |-> 0]

\* Inodes that still have a name.
Referenced(st) ==
    {st.working[p].ino : p \in {q \in Paths : st.working[q].kind = "file"}}
    \cup {st.anchors[d] : d \in Digests} \cup {st.cache[d] : d \in Digests}

\* The names of the file system in a fixed order (0 where there is no file).
DigestSeq == <<compute_digest("hello"), compute_digest("world")>>

Names(st) ==
    [k \in 1 .. Len(DigestSeq) |-> st.cache[DigestSeq[k]]]
    \o [k \in 1 .. Len(DigestSeq) |-> st.anchors[DigestSeq[k]]]
    \o [k \in 1 .. Len(SortedPaths) |->
          IF st.working[SortedPaths[k]].kind = "file"
          THEN st.working[SortedPaths[k]].ino ELSE 0]

FirstName(names, i) ==
    CHOOSE k \in 1 .. Len(names) : names[k] = i /\ \A j \in 1 .. (k - 1) : names[j] # i

\* An inode with no name left is gone.  Inode numbers are not observable
\* beyond equality (st_ino), so the inodes in use are numbered 1, 2, ... in
\* the order of their first name.
Renumber(st, names, used, first) ==
    LET num == [i \in used |-> Cardinality({j \in used : first[j] <= first[i]})]
        ren(i) == IF i = 0 THEN 0 ELSE num[i]
    IN  [st EXCEPT
           !.inodes  = [n \in Inos |->
                          IF \E i \in used : num[i] = n
                          THEN st.inodes[CHOOSE i \in used : num[i] = n]
                          ELSE FreeInode],
           !.cache   = [d \in Digests |-> ren(st.cache[d])],
           !.anchors = [d \in Digests |-> ren(st.anchors[d])],
           !.working = [p \in Paths |->
                          IF st.working[p].kind = "file"
                          THEN FileNode(ren(st.working[p].ino))
                          ELSE st.working[p]]]

HasFreeIno(st) == \E i \in Inos : i \notin Referenced(st)

\* A new file takes the lowest inode that has no name.
NewIno(st) ==
    CHOOSE i \in Inos :
        i \notin Referenced(st) /\ \A j \in Inos : j \notin Referenced(st) => i <= j

\* The inode a path leads to, following a symlink (0: nothing there).
Resolve(st, p) ==
    LET n == st.working[p]
    IN  CASE n.kind = "file" -> n.ino
          [] n.kind = "link" ->
               LET t == normpath(dirname(p), n.target)
               IN  IF \E d \in Digests : t = anchor_path(d)
                   THEN st.anchors[CHOOSE d \in Digests : t = anchor_path(d)]
                   ELSE 0
          [] OTHER -> 0

\* Entry properties
in_cache(st, d) == st.cache[d] # 0
in_anchors(st, d) == st.anchors[d] # 0
is_link(st, p) == st.working[p].kind = "link"
in_working(st, p) == Resolve(st, p) # 0
is_linked(st, p, d) ==
    in_anchors(st, d) /\ is_link(st, p) /\ st.working[p].target = symlink_path(p, d)

\* lock_file: remove the write permission of the file at an existing path.
lock_file(st, i) ==
    IF i = 0 THEN st ELSE [st EXCEPT !.inodes[i].writable = FALSE]

\* unlock_file: add the write permission.
unlock_file(st, i) ==
    IF i = 0 THEN st ELSE [st EXCEPT !.inodes[i].writable = TRUE]

Fail(st, why) == [st EXCEPT !.status = why]

\* Sequencing: the value v is computed once and handed to the next step.
Then(v, F(_)) == CHOOSE y \in {F(x) : x \in {v}} : TRUE

\* An anchor made as a copy of the cache object: a file of its own.
fs_copy_anchor(st, d) ==
    IF st.cache[d] = 0 \/ ~HasFreeIno(st) THEN Fail(st, "crash")
    ELSE [st EXCEPT !.inodes[NewIno(st)] = st.inodes[st.cache[d]],
                    !.anchors[d] = NewIno(st)]

\* fs.link(entry.cache_path, entry.anchor_path): a second name of the inode.
fs_link_anchor(st, d) ==
    IF st.cache[d] = 0 THEN Fail(st, "crash")
    ELSE [st EXCEPT !.anchors[d] = st.cache[d]]

\* fs.symlink(entry.symlink_path, entry.working_path); EEXIST when any node,
\* a dangling symlink included, already has that name.
fs_symlink(st, p, d) ==
    IF st.working[p].kind # "none" THEN Fail(st, "crash")
    ELSE [st EXCEPT !.working[p] = LinkNode(symlink_path(p, d))]

\* os.unlink(entry.working_path)
os_unlink(st, p) == [st EXCEPT !.working[p] = NoNode]

\* --------------------------------------------------------------------- add

\* os.rename(entry.working_path, entry.cache_path): the file takes the
\* cache path.  (A symlink moved there would dangle: no object.)
rename_to_cache(st, p, d) ==
    [st EXCEPT !.cache[d] = IF st.working[p].kind = "file" THEN st.working[p].ino ELSE 0,
               !.working[p] = NoNode]

\* The first branch of App._add_file: rename and lock_file(cache_path) when
\* the object is new, os.unlink otherwise.
_add_to_cache(st, p, d) ==
    IF ~in_cache(st, d)
    THEN Then(rename_to_cache(st, p, d), LAMBDA m : lock_file(m, m.cache[d]))
    ELSE os_unlink(st, p)

\* _store_file that keeps the digest a path already has in the manifest.
_store_file_setdefault(st, p) ==
    LET d == compute_digest(st.inodes[Resolve(st, p)].content)
    IN  Then(_add_to_cache(st, p, d), LAMBDA s1 :
        Then(IF ~in_anchors(s1, d) THEN fs_link_anchor(s1, d) ELSE s1, LAMBDA s2 :
        Then(fs_symlink(s2, p, d), LAMBDA s3 :
             IF s3.status # "ok" \/ s3.files[p] # NoDigest THEN s3
             ELSE [s3 EXCEPT !.files[p] = d])))

\* App._add_file past its first test; compute_digest reads the file the
\* path leads to.
_store_file(st, p) ==
    LET d == compute_digest(st.inodes[Resolve(st, p)].content)
    IN  Then(_add_to_cache(st, p, d), LAMBDA s1 :
        Then(IF ~in_anchors(s1, d) THEN fs_link_anchor(s1, d) ELSE s1, LAMBDA s2 :
        Then(fs_symlink(s2, p, d), LAMBDA s3 :
             IF s3.status # "ok" THEN s3 ELSE [s3 EXCEPT !.files[p] = d])))

\* An add that stores whatever is at the path, with neither the test for a
\* symlink nor the test for an object already in the cache.
_add_file_always_store(st, p) ==
    LET d == compute_digest(st.inodes[Resolve(st, p)].content)
    IN  Then(rename_to_cache(st, p, d), LAMBDA s0 :
        Then(lock_file(s0, s0.cache[d]), LAMBDA s1 :
        Then(IF ~in_anchors(s1, d) THEN fs_link_anchor(s1, d) ELSE s1, LAMBDA s2 :
        Then(fs_symlink(s2, p, d), LAMBDA s3 :
             IF s3.status # "ok" THEN s3 ELSE [s3 EXCEPT !.files[p] = d]))))

\* App._add_file, for a path that exists (click.Path(exists=True)).
_add_file(st, p) ==
    IF is_link(st, p) THEN st ELSE _store_file(st, p)

RECURSIVE AddAll(_, _)
AddAll(st, ps) ==
    IF ps = <<>> \/ st.status # "ok" THEN st
    ELSE Then(_add_file(st, Head(ps)), LAMBDA s : AddAll(s, Tail(ps)))

\* click.Path(exists=True): every argument must exist (symlinks followed).
AllExist(st, ps) == \A k \in 1 .. Len(ps) : in_working(st, ps[k])

\* App.cmd_add: _add_file per path, then _save_config.
App_cmd_add(st, ps) ==
    IF ~AllExist(st, ps) THEN Fail(st, "usage") ELSE AddAll(st, ps)

\* ---------------------------------------------------------------- rm, unlock

\* App._remove_file: os.path.exists follows a symlink, so a link that leads
\* nowhere is not unlinked; repo.index.remove takes the path out of the git
\* index only (git rm --cached) and leaves the working tree alone.
_remove_file(st, p) ==
    Then(IF in_working(st, p) THEN os_unlink(st, p) ELSE st, LAMBDA s1 :
         IF st.files[p] = NoDigest THEN s1
         ELSE [s1 EXCEPT !.files[p] = NoDigest])

App_cmd_remove(st, p) == _remove_file(st, p)

\* An unlock that moves the cache object to the working path instead of
\* copying it.
_copy_via_rename(st, d, p) ==
    IF ~in_cache(st, d) THEN Fail(st, "crash")
    ELSE [st EXCEPT !.working[p] = FileNode(st.cache[d]), !.cache[d] = 0]

\* An unlock that makes the working path another name of the cache object.
_copy_via_link(st, d, p) ==
    IF ~in_cache(st, d) THEN Fail(st, "crash")
    ELSE [st EXCEPT !.working[p] = FileNode(st.cache[d])]

\* App._copy_via_chunk: a new file with the bytes of the cache object,
\* written to a temporary file and renamed; OSError when there is no cache
\* object.
_copy_via_chunk(st, d, p) ==
    IF ~in_cache(st, d) THEN Fail(st, "crash")
    ELSE IF ~HasFreeIno(st) THEN Fail(st, "enospc")
    ELSE LET n == NewIno(st)
         IN  [st EXCEPT !.inodes[n] = [content |-> st.inodes[st.cache[d]].content,
                                       writable |-> TRUE],
                        !.working[p] = FileNode(n)]

\* App._unlock_file
_unlock_file(st, p) ==
    IF ~is_link(st, p) \/ st.files[p] = NoDigest THEN st
    ELSE Then(os_unlink(st, p), LAMBDA s0 :
         Then(_copy_via_chunk(s0, st.files[p], p), LAMBDA s1 :
              IF s1.status # "ok" THEN s1
              ELSE [unlock_file(s1, s1.working[p].ino) EXCEPT !.files[p] = NoDigest]))

App_cmd_unlock(st, p) ==
    IF ~in_working(st, p) THEN Fail(st, "usage") ELSE _unlock_file(st, p)

\* ------------------------------------------------------------------ cp, mv

\* A copy that gives the target bytes of its own: a second cache object is
\* not possible under one digest, so the target becomes a regular file.
_copy_file_bytes(st, src, tgt) ==
    IF st.files[src] = NoDigest THEN Fail(st, "crash")
    ELSE IF st.working[tgt].kind # "none" THEN Fail(st, "crash")
    ELSE Then(_copy_via_chunk(st, st.files[src], tgt), LAMBDA s1 :
              IF s1.status # "ok" THEN s1 ELSE [s1 EXCEPT !.files[tgt] = st.files[src]])

\* App._copy_file: Entry(config, rel_tgt, None) raises for an untracked source.
_copy_file(st, src, tgt) ==
    IF st.files[src] = NoDigest THEN Fail(st, "crash")
    ELSE Then(fs_symlink(st, tgt, st.files[src]), LAMBDA s1 :
              IF s1.status # "ok" THEN s1 ELSE [s1 EXCEPT !.files[tgt] = st.files[src]])

App_cmd_copy(st, src, tgt) ==
    IF ~in_working(st, src) THEN Fail(st, "usage") ELSE _copy_file(st, src, tgt)

\* A move that leaves the source link in place.
_move_file_keep_src(st, src, tgt) ==
    IF st.files[src] = NoDigest THEN Fail(st, "crash")
    ELSE Then(fs_symlink(st, tgt, st.files[src]), LAMBDA s1 :
              IF s1.status # "ok" THEN s1
              ELSE [s1 EXCEPT !.files[tgt] = st.files[src],
                              !.files[src] = NoDigest])

\* A move that unlinks the source before it looks the source up.
_move_file_unlink_first(st, src, tgt) ==
    IF st.files[src] = NoDigest THEN Fail(os_unlink(st, src), "crash")
    ELSE Then(fs_symlink(st, tgt, st.files[src]), LAMBDA s1 :
              IF s1.status # "ok" THEN s1
              ELSE [os_unlink(s1, src) EXCEPT !.files[tgt] = st.files[src],
                                              !.files[src] = NoDigest])

\* App._move_file
_move_file(st, src, tgt) ==
    IF st.files[src] = NoDigest THEN Fail(st, "crash")
    ELSE Then(fs_symlink(st, tgt, st.files[src]), LAMBDA s1 :
              IF s1.status # "ok" THEN s1
              ELSE [os_unlink(s1, src) EXCEPT !.files[tgt] = st.files[src],
                                              !.files[src] = NoDigest])

App_cmd_move(st, src, tgt) ==
    IF ~in_working(st, src) THEN Fail(st, "usage") ELSE _move_file(st, src, tgt)

\* ------------------------------------------------------------------- depot

\* Storage driver, as Depot calls it: has_object(path) gives a size or None,
\* get_file(path, local) downloads, put_file(path, local) uploads.
has_object(st, d) == st.depot[d] # "none"

\* Depot._entry: entry.in_depot afterwards is membership in the returned index.
Depot_entry(st, d) ==
    IF d \in st.index THEN st
    ELSE IF has_object(st, d) THEN [st EXCEPT !.index = @ \cup {d}]
    ELSE st

\* tempfile.mkstemp(dir=self.tmp_dir), and the finally clause of Depot.get
\* that unlinks the temporary file where it still exists.  tmp counts the
\* files in <cache_dir>/tmp.
mkstemp(st) == [st EXCEPT !.tmp = @ + 1]
unlink_tmp(st) == [st EXCEPT !.tmp = @ - 1]

\* Depot.get: download to a temporary file, rename it to cache_path, lock it.
\* A transfer that breaks off raises out of get_file with a part of the
\* bytes in the temporary file.
Depot_get(st, d) ==
    Then(Depot_entry(st, d), LAMBDA s0 :
        IF d \notin s0.index THEN s0
        ELSE IF ~has_object(s0, d) THEN Fail(unlink_tmp(mkstemp(s0)), "crash")
        ELSE IF net = "cut" THEN Fail(unlink_tmp(mkstemp(s0)), "crash")
        ELSE IF ~HasFreeIno(s0) THEN Fail(s0, "enospc")
        ELSE Then([mkstemp(s0) EXCEPT !.inodes[NewIno(s0)] = [content |-> s0.depot[d],
                                                              writable |-> TRUE],
                                      !.cache[d] = NewIno(s0),
                                      !.tmp = @ - 1], LAMBDA s1 :
                  [lock_file(s1, s1.cache[d]) EXCEPT !.index = @ \cup {d},
                                                     !.log = Append(@, <<"get_file", d>>)]))

\* A put that records the object as present without uploading it.
Depot_put_index_only(st, d) ==
    Then(Depot_entry(st, d), LAMBDA s0 :
        IF d \in s0.index THEN s0
        ELSE IF ~in_cache(s0, d) THEN Fail(s0, "crash")
        ELSE [s0 EXCEPT !.index = @ \cup {d}])

\* A put that uploads without asking whether the depot has the object.
Depot_put_always(st, d) ==
    IF ~in_cache(st, d) THEN Fail(st, "crash")
    ELSE [st EXCEPT !.depot[d] = st.inodes[st.cache[d]].content,
                    !.index = @ \cup {d},
                    !.log = Append(@, <<"put_file", d>>)]

\* A put that uploads and leaves the presence index as it is.
Depot_put_no_record(st, d) ==
    Then(Depot_entry(st, d), LAMBDA s0 :
        IF d \in s0.index THEN s0
        ELSE IF ~in_cache(s0, d) THEN Fail(s0, "crash")
        ELSE IF net = "cut" THEN Fail(s0, "crash")
        ELSE [s0 EXCEPT !.depot[d] = s0.inodes[s0.cache[d]].content,
                        !.log = Append(@, <<"put_file", d>>)])

\* Depot.put: upload the cache object unless the depot is known to have it.
Depot_put(st, d) ==
    Then(Depot_entry(st, d), LAMBDA s0 :
        IF d \in s0.index THEN s0
        ELSE IF ~in_cache(s0, d) THEN Fail(s0, "crash")
        ELSE IF net = "cut" THEN Fail(s0, "crash")
        ELSE [s0 EXCEPT !.depot[d] = s0.inodes[s0.cache[d]].content,
                        !.index = @ \cup {d},
                        !.log = Append(@, <<"put_file", d>>)])

\* Depot.save_refs: put_string(refs_path, ...) with the reachable digests.
Depot_save_refs(st) == [st EXCEPT !.log = Append(@, <<"put_string", "refs">>)]

\* App._entries: the manifest entries in sorted order, filtered by paths
\* (no filter when paths is empty).
RECURSIVE _entries_from(_, _, _)
_entries_from(st, ps, k) ==
    IF k > Len(SortedPaths) THEN <<>>
    ELSE LET p == SortedPaths[k]
             rest == _entries_from(st, ps, k + 1)
         IN  IF st.files[p] # NoDigest /\ (ps = {} \/ p \in ps)
             THEN <<p>> \o rest ELSE rest

\* Entries taken without the filter.
_entries_unfiltered(st, ps) == _entries_from(st, {}, 1)

_entries(st, ps) == _entries_from(st, ps, 1)

\* -------------------------------------------------------------------- push

\* A push that uploads the first entry only.
PushAll_first_only(st, es) ==
    IF es = <<>> THEN st ELSE Depot_put(st, st.files[Head(es)])

RECURSIVE PushAll(_, _)
PushAll(st, es) ==
    IF es = <<>> \/ st.status # "ok" THEN st
    ELSE Then(Depot_put(st, st.files[Head(es)]), LAMBDA s : PushAll(s, Tail(es)))

\* A push that ends without writing the refs.
App_cmd_push_no_refs(st) ==
    IF ~has_depot THEN Fail(st, "nodepot")
    ELSE PushAll(st, _entries(st, {}))

\* App.cmd_push
App_cmd_push(st) ==
    IF ~has_depot THEN Fail(st, "nodepot")
    ELSE Then(PushAll(st, _entries(st, {})), LAMBDA s1 :
              IF s1.status # "ok" THEN s1 ELSE Depot_save_refs(s1))

\* App.cmd_drop: _check_depot('dropping'), then depot.delete_refs(), a
\* delete_object of refs_path.
App_cmd_drop(st) ==
    IF ~has_depot THEN Fail(st, "nodepot")
    ELSE [st EXCEPT !.log = Append(@, <<"delete_object", "refs">>)]

\* -------------------------------------------------------------------- pull

\* shutil.rmtree(anchors_dir, onerror=rmtree_err_handler): where unlinking a
\* read-only file is refused (Windows), the handler makes the file writable
\* (os.chmod(path, stat.S_IWUSR)) and unlinks again.
rmtree_err_handler(st, i) ==
    IF IS_WIN /\ ~st.inodes[i].writable
    THEN [st EXCEPT !.inodes[i].writable = TRUE]
    ELSE st

\* A full pull that leaves the anchors directory as it finds it.
rmtree_skipped(st, ds) == st

RECURSIVE rmtree_anchors(_, _)
rmtree_anchors(st, ds) ==
    IF ds = {} THEN st
    ELSE LET d == CHOOSE x \in ds : TRUE
         IN  Then(IF st.anchors[d] = 0 THEN st
                  ELSE [rmtree_err_handler(st, st.anchors[d]) EXCEPT !.anchors[d] = 0],
                  LAMBDA s1 : rmtree_anchors(s1, ds \ {d}))

\* A turn of the loop that puts the symlink in the place of a regular file.
pull_entry_clobber(st, p, soft) ==
    LET d == st.files[p]
    IN  Then(IF ~in_cache(st, d) /\ has_depot /\ ~soft THEN Depot_get(st, d) ELSE st,
        LAMBDA s1 :
          IF s1.status # "ok" THEN s1
          ELSE IF in_cache(s1, d)
          THEN Then(IF ~in_anchors(s1, d) THEN fs_link_anchor(s1, d) ELSE s1,
               LAMBDA s2 :
                 IF s2.status # "ok" THEN s2
                 ELSE IF ~in_working(s2, p) \/ ~is_link(s2, p)
                      THEN fs_symlink(os_unlink(s2, p), p, d)
                 ELSE s2)
          ELSE s1)

\* One turn of the loop of App.cmd_pull over an entry.
pull_entry(st, p, soft) ==
    LET d == st.files[p]
    IN  Then(IF ~in_cache(st, d) /\ has_depot /\ ~soft THEN Depot_get(st, d) ELSE st,
        LAMBDA s1 :
          IF s1.status # "ok" THEN s1
          ELSE IF in_cache(s1, d)
          THEN Then(IF ~in_anchors(s1, d) THEN fs_link_anchor(s1, d) ELSE s1,
               LAMBDA s2 :
                 IF s2.status # "ok" THEN s2
                 ELSE IF ~in_working(s2, p) THEN fs_symlink(s2, p, d)
                 ELSE IF ~is_link(s2, p) THEN Fail(s2, "dirty")
                 ELSE s2)
          ELSE s1)

RECURSIVE PullAll(_, _, _)
PullAll(st, es, soft) ==
    IF es = <<>> \/ st.status # "ok" THEN st
    ELSE Then(pull_entry(st, Head(es), soft), LAMBDA s : PullAll(s, Tail(es), soft))

\* A pull that clears the anchors whether or not paths are given.
App_cmd_pull_clearing(st, ps, soft_arg) ==
    LET soft    == IF ps # {} THEN FALSE ELSE soft_arg
        entries == _entries(st, ps)
    IN  IF ~soft /\ ~has_depot THEN Fail(st, "nodepot")
        ELSE IF ps # {} /\ entries = <<>> THEN Fail(st, "nothing")
        ELSE Then(rmtree_anchors(st, Digests), LAMBDA s1 :
             Then(PullAll(s1, entries, soft), LAMBDA s2 :
                  IF s2.status # "ok" THEN s2
                  ELSE IF ~has_depot THEN Fail(s2, "crash")
                  ELSE Depot_save_refs(s2)))

\* A pull that clears the anchors before it looks for the depot.
App_cmd_pull_check_late(st, ps, soft_arg) ==
    LET soft    == IF ps # {} THEN FALSE ELSE soft_arg
        entries == _entries(st, ps)
    IN  Then(IF ps = {} THEN rmtree_anchors(st, Digests) ELSE st, LAMBDA s1 :
             IF ~soft /\ ~has_depot THEN Fail(s1, "nodepot")
             ELSE IF ps # {} /\ entries = <<>> THEN Fail(s1, "nothing")
             ELSE Then(PullAll(s1, entries, soft), LAMBDA s2 :
                  IF s2.status # "ok" THEN s2
                  ELSE IF ~has_depot THEN Fail(s2, "crash")
                  ELSE Depot_save_refs(s2)))

\* App.cmd_pull(paths, soft), extra=None; ends with self.depot.save_refs(...),
\* an AttributeError when no depot is configured.
App_cmd_pull(st, ps, soft_arg) ==
    LET soft    == IF ps # {} THEN FALSE ELSE soft_arg
        entries == _entries(st, ps)
    IN  IF ~soft /\ ~has_depot THEN Fail(st, "nodepot")
        ELSE IF ps # {} /\ entries = <<>> THEN Fail(st, "nothing")
        ELSE Then(IF ps = {} THEN rmtree_anchors(st, Digests) ELSE st, LAMBDA s1 :
             Then(PullAll(s1, entries, soft), LAMBDA s2 :
                  IF s2.status # "ok" THEN s2
                  ELSE IF ~has_depot THEN Fail(s2, "crash")
                  ELSE Depot_save_refs(s2)))

\* -------------------------------------------------------------- invocations

Sweep(st) ==
    LET names == Names(st)
        used  == Referenced(st) \ {0}
    IN  Renumber(st, names, used, [i \in used |-> FirstName(names, i)])


\* What an invocation leaves on disk.  The manifest is written by the
\* trailing _save_config only: an invocation that raised leaves .gitbig as
\* it was.
Outcome(r) ==
    [Sweep(r) EXCEPT !.files = IF r.status = "ok" THEN r.files ELSE files]

Install(r) ==
    \E z \in {Outcome(r)} :
        /\ r.status # "enospc"
        /\ files' = z.files
        /\ working' = z.working
        /\ inodes' = z.inodes
        /\ anchors' = z.anchors
        /\ cache' = z.cache
        /\ depot' = z.depot
        /\ index' = z.index
        /\ UNCHANGED <<IS_WIN, has_depot, aux>>

\* The history keeps the exit status of the commands in Traced; any other
\* step is recorded as "other".
Traced == {"init", "add", "pull"}

Step(c, status) ==
    IF c \in Traced THEN [cmd |-> c, status |-> status]
    ELSE [cmd |-> "other", status |-> "ok"]

\* `add` with one path or with two different ones, in either order.
AddArgs ==
    {<<p>> : p \in Paths}
    \cup {pq \in Paths \X Paths : pq[1] # pq[2]}

\* A local command: it may change the manifest, and ends the clone's freshness.
Run(F(_)) == Then(Cur, F)

Local(r, c) ==
    /\ Install(r)
    /\ last' = Step(c, r.status)
    /\ pushed' = (pushed /\ files' = files)
    /\ fresh' = FALSE

cmd_add(ps) ==
    \E r \in {Run(LAMBDA st : App_cmd_add(st, ps))} : Local(r, "add")

cmd_remove(p) ==
    \E r \in {Run(LAMBDA st : App_cmd_remove(st, p))} : Local(r, "rm")

cmd_unlock(p) ==
    \E r \in {Run(LAMBDA st : App_cmd_unlock(st, p))} : Local(r, "unlock")

cmd_copy(src, tgt) ==
    \E r \in {Run(LAMBDA st : App_cmd_copy(st, src, tgt))} : Local(r, "cp")

cmd_move(src, tgt) ==
    \E r \in {Run(LAMBDA st : App_cmd_move(st, src, tgt))} : Local(r, "mv")

cmd_push ==
    \E r \in {Run(LAMBDA st : App_cmd_push(st))} :
        /\ Install(r)
        /\ last' = Step("push", r.status)
        /\ pushed' = (pushed \/ r.status = "ok")
        /\ fresh' = FALSE

cmd_pull(ps, soft) ==
    \E r \in {Run(LAMBDA st : App_cmd_pull(st, ps, soft))} :
        /\ Install(r)
        /\ last' = Step("pull", r.status)
        /\ UNCHANGED <<pushed, fresh>>

cmd_drop ==
    \E r \in {Run(LAMBDA st : App_cmd_drop(st))} :
        /\ Install(r)
        /\ last' = Step("drop", r.status)
        /\ UNCHANGED <<pushed, fresh>>

\* ------------------------------------------------------ the user and git

\* The user writes a new regular file.
UserCreate(p, c) ==
    /\ working[p].kind = "none"
    /\ HasFreeIno(Cur)
    /\ \E r \in {Run(LAMBDA st : [st EXCEPT
                          !.inodes[NewIno(st)] = [content |-> c, writable |-> TRUE],
                          !.working[p] = FileNode(NewIno(st))])} : Install(r)
    /\ last' = Step("user", "ok")
    /\ fresh' = FALSE
    /\ UNCHANGED pushed

\* The user deletes whatever is at a path.
UserUnlink(p) ==
    /\ working[p].kind # "none"
    /\ \E r \in {Run(LAMBDA st : os_unlink(st, p))} : Install(r)
    /\ last' = Step("user", "ok")
    /\ fresh' = FALSE
    /\ UNCHANGED pushed

\* The user overwrites the file a path leads to; the open for writing is
\* refused unless the file has write permission.
UserEdit(p, c) ==
    /\ Resolve(Cur, p) # 0
    /\ inodes[Resolve(Cur, p)].writable
    /\ inodes[Resolve(Cur, p)].content # c
    /\ \E r \in {Run(LAMBDA st : [st EXCEPT !.inodes[Resolve(st, p)].content = c])} :
          Install(r)
    /\ last' = Step("user", "ok")
    /\ fresh' = FALSE
    /\ UNCHANGED pushed

\* git commit, then git clone into a new directory with a new, empty cache
\* directory and the same depot configuration: the manifest and the tracked
\* symlinks are checked out, nothing else is there.
GitClone ==
    /\ files' = files
    /\ working' = [p \in Paths |->
                     IF files[p] = NoDigest THEN NoNode
                     ELSE LinkNode(symlink_path(p, files[p]))]
    /\ inodes' = [i \in Inos |-> FreeInode]
    /\ anchors' = [d \in Digests |-> 0]
    /\ cache' = [d \in Digests |-> 0]
    /\ index' = {}
    /\ fresh' = pushed
    /\ last' = Step("clone", "ok")
    /\ UNCHANGED <<IS_WIN, has_depot, depot, pushed, aux>>

\* The connection to the depot breaks, and comes back.
NetCut ==
    /\ net = "up"
    /\ net' = "cut"
    /\ UNCHANGED exceptNet

NetRestore ==
    /\ net = "cut"
    /\ net' = "up"
    /\ UNCHANGED exceptNet

\* Another party deletes an object from the depot (a retention sweep on the
\* server); no clone hears of it, the presence indexes stay as they are.
DepotDelete(d) ==
    /\ depot[d] # "none"
    /\ depot' = [depot EXCEPT ![d] = "none"]
    /\ pushed' = FALSE
    /\ fresh' = FALSE
    /\ last' = Step("sweep", "ok")
    /\ UNCHANGED <<IS_WIN, has_depot, files, working, inodes, anchors, cache, index, aux>>

\* ------------------------------------------------------ reachability scan

MaxCommits == 3

\* The files maps a manifest can hold (NoDigest: the path is not a key).
Manifests == [Paths -> Digests \cup {NoDigest}]

\* RepoConfig.__init__: version is 1 whatever was read, files is the member
\* 'files'.
RepoConfig(kw) == [version |-> 1, files |-> kw.files]

RECURSIVE ItemsFrom(_, _)
ItemsFrom(f, k) ==
    IF k > Len(SortedPaths) THEN <<>>
    ELSE IF f[SortedPaths[k]] = NoDigest THEN ItemsFrom(f, k + 1)
    ELSE <<<<SortedPaths[k], f[SortedPaths[k]]>>>> \o ItemsFrom(f, k + 1)

\* json.dumps(dict(config)): RepoConfig.__iter__ yields the version and the
\* files as a list of (path, digest) sorted by path.
json_dumps(cfg) == [version |-> cfg.version, files |-> ItemsFrom(cfg.files, 1)]

\* json.loads of such a text: the keyword arguments for RepoConfig; where a
\* key comes twice the later one stays.
json_loads(text) ==
    [version |-> text.version,
     files |-> [p \in Paths |->
                 LET ks == {k \in 1 .. Len(text.files) : text.files[k][1] = p}
                 IN  IF ks = {} THEN NoDigest
                     ELSE text.files[CHOOSE k \in ks : \A j \in ks : j <= k][2]]]

\* The texts .gitbig can have.
Texts == {json_dumps(RepoConfig([files |-> f])) : f \in Manifests}

\* six.itervalues(index.files)
itervalues(f) == {f[p] : p \in Paths} \ {NoDigest}

\* The commits of the history are numbered in the order they were made;
\* each has the text of .gitbig and its parents, the first parent first.
Commit(text, parents) == [text |-> text, parents |-> parents]

ParentSet(h, c) == {h[c].parents[k] : k \in 1 .. Len(h[c].parents)}

\* --all: the branch heads.  A branch is deleted once it is merged, so the
\* heads are the commits that are no commit's parent.
Heads(h) == {c \in 1 .. Len(h) : \A e \in 1 .. Len(h) : c \notin ParentSet(h, e)}

\* The parents of c with the same .gitbig as c.
TreeSame(h, c) == {k \in 1 .. Len(h[c].parents) : h[h[c].parents[k]].text = h[c].text}

\* git's history simplification for `-- .gitbig`: a commit with the same
\* .gitbig as one of its parents is not listed and the walk goes on through
\* the first such parent only; any other commit is listed and the walk goes
\* on through all its parents.
Follow(h, c) ==
    IF TreeSame(h, c) = {} THEN ParentSet(h, c)
    ELSE {h[c].parents[CHOOSE k \in TreeSame(h, c) : \A j \in TreeSame(h, c) : k <= j]}

RECURSIVE Walk(_, _)
Walk(h, cs) ==
    LET more == cs \cup UNION {Follow(h, c) : c \in cs}
    IN  IF more = cs THEN cs ELSE Walk(h, more)

Listed(h) == {c \in Walk(h, Heads(h)) : TreeSame(h, c) = {}}

\* git rev-list --objects --all -- .gitbig, each line split into its parts:
\* a commit and its root tree are lines of one part, the blob of .gitbig is
\* a line <<name, ".gitbig">>; git lists an object once.  A blob is named by
\* the hash of its text, for which the text itself stands.
RECURSIVE rev_list(_, _)
rev_list(h, c) ==
    IF c = 0 THEN <<>>
    ELSE IF c \notin Listed(h) THEN rev_list(h, c - 1)
    ELSE <<<<"commit">>, <<"tree">>>>
         \o (IF \E e \in Listed(h) : e > c /\ h[e].text = h[c].text THEN <<>>
             ELSE <<<<h[c].text, ".gitbig">>>>)
         \o rev_list(h, c - 1)

\* git show <object>
git_show(obj) == obj

ScanIdle ==
    [pc |-> "idle", objects |-> {}, todo |-> {},
     reads |-> [t \in Texts |-> 0], reachable |-> {}]

\* The first loop of _find_reachable_objects: the set of the objects named
\* on the lines whose second part is .gitbig.
scan_objects(h) ==
    LET lines == rev_list(h, Len(h))
        objs  == {lines[k][1] : k \in {j \in 1 .. Len(lines) :
                     Len(lines[j]) > 1 /\ lines[j][2] = ".gitbig"}}
    IN  [ScanIdle EXCEPT !.pc = "show", !.objects = objs, !.todo = objs]

\* One turn of the second loop: git show, json.loads, RepoConfig, and every
\* digest of its files added to reachable.
scan_show(sc, obj) ==
    [sc EXCEPT !.todo = @ \ {obj},
               !.reads[obj] = @ + 1,
               !.reachable = @ \cup
                   itervalues(RepoConfig(json_loads(git_show(obj))).files)]

\* The parents a new commit can have: none for the first commit, then one
\* commit, or two different ones for a merge.
ParentChoices(h) ==
    IF h = <<>> THEN {<<>>}
    ELSE {<<c>> : c \in 1 .. Len(h)}
         \cup {ce \in (1 .. Len(h)) \X (1 .. Len(h)) : ce[1] # ce[2]}

\* git commit, or git merge, on any branch, with .gitbig as the index has it.
GitCommit(f, parents) ==
    /\ scan.pc # "show"
    /\ Len(history) < MaxCommits
    /\ history' = Append(history, Commit(json_dumps(RepoConfig([files |-> f])), parents))
    /\ scan' = ScanIdle
    /\ UNCHANGED exceptScan

ScanStart ==
    /\ scan.pc = "idle"
    /\ scan' = scan_objects(history)
    /\ UNCHANGED <<exceptScan, history>>

\* The set is iterated in an order the program does not choose.
ScanShow(obj) ==
    /\ scan.pc = "show"
    /\ obj \in scan.todo
    /\ scan' = scan_show(scan, obj)
    /\ UNCHANGED <<exceptScan, history>>

ScanReturn ==
    /\ scan.pc = "show"
    /\ scan.todo = {}
    /\ scan' = [scan EXCEPT !.pc = "done"]
    /\ UNCHANGED <<exceptScan, history>>

\* App._find_reachable_objects run to its end: the digests of every .gitbig
\* that rev-list names in the history.  What is staged or in the working
\* tree and not committed is no object of any commit.
_find_reachable_objects(h) ==
    UNION {itervalues(RepoConfig(json_loads(git_show(obj))).files) :
             obj \in scan_objects(h).objects}

\* git commit on the one branch, with .gitbig as `add` has left it.
GitCommitManifest ==
    GitCommit(files, IF history = <<>> THEN <<>> ELSE <<Len(history)>>)

InitScan ==
    /\ history = <<>>
    /\ scan = ScanIdle

\* ------------------------------------------------------ the merge driver

\* dict.update with current's keys winning.
RepoConfig_merge_ours(cur, other) ==
    [cur EXCEPT !.files = [p \in Paths |->
        IF cur.files[p] # NoDigest THEN cur.files[p] ELSE other.files[p]]]

\* RepoConfig.merge: self.files.update(other.files)
RepoConfig_merge(cur, other) ==
    [cur EXCEPT !.files = [p \in Paths |->
        IF other.files[p] # NoDigest THEN other.files[p] ELSE cur.files[p]]]

\* App._load_config
_load_config(text) == RepoConfig(json_loads(text))

MergeIdle ==
    [pc |-> "idle", ancestor |-> <<>>, current |-> <<>>, other |-> <<>>,
     ours |-> <<>>]

\* App.cmd_custom_merge(ancestor_path, current_path, other_path) on the three
\* files m holds: the merged manifest is written over the current file.
App_cmd_custom_merge(m) ==
    [m EXCEPT !.pc = "done",
              !.current = json_dumps(RepoConfig_merge(_load_config(m.current),
                                                      _load_config(m.other)))]

\* git merge finds .gitbig changed on both sides and hands the three
\* versions to the driver.  ours keeps what the current file was.
GitMerge(a, c, o) ==
    /\ merge.pc = "idle"
    /\ merge' = [pc |-> "start", ancestor |-> a, current |-> c, other |-> o,
                 ours |-> c]
    /\ UNCHANGED exceptMerge

cmd_custom_merge ==
    /\ merge.pc = "start"
    /\ merge' = App_cmd_custom_merge(merge)
    /\ UNCHANGED exceptMerge

\* ---------------------------------------------------------- invocations

MaxProcs == 3

Procs == 1 .. MaxProcs

\* The two ways a process gets to the commands: main(), which takes the
\* lock around cli(), and cli itself, which the console script of setup.py
\* names (git-big=git_big.main:cli).
Launchers == {"main", "cli"}

\* The positions at which a process is inside a command body: a command
\* tests a condition on the file system ("check"), then acts on it ("act").
InBody == {"check", "act"}

\* A process is started.
Launch(i, l) ==
    /\ procs[i].pc = "idle"
    /\ procs' = [procs EXCEPT ![i] = [pc |-> IF l = "main" THEN "wait" ELSE "check",
                                      launcher |-> l]]
    /\ UNCHANGED <<lock, exceptLock>>

\* Singlet.__enter__: the call returns when no other process holds the lock.
Singlet_enter(i) ==
    /\ procs[i].pc = "wait"
    /\ lock = 0
    /\ lock' = i
    /\ procs' = [procs EXCEPT ![i].pc = "check"]
    /\ UNCHANGED exceptLock

\* cli(): the steps of the command body.
cli_check(i) ==
    /\ procs[i].pc = "check"
    /\ procs' = [procs EXCEPT ![i].pc = "act"]
    /\ UNCHANGED <<lock, exceptLock>>

cli_act(i) ==
    /\ procs[i].pc = "act"
    /\ procs' = [procs EXCEPT ![i].pc = "exit"]
    /\ UNCHANGED <<lock, exceptLock>>

\* The process ends; Singlet.__exit__ releases the lock it holds.
Exit(i) ==
    /\ procs[i].pc = "exit"
    /\ procs' = [procs EXCEPT ![i].pc = "idle"]
    /\ lock' = IF lock = i THEN 0 ELSE lock
    /\ UNCHANGED exceptLock

InitLock ==
    /\ procs = [i \in Procs |-> [pc |-> "idle", launcher |-> "main"]]
    /\ lock = 0

\* ------------------------------------------------------ the filter server

MaxCommands == 2

\* The packets of the pipe.  A line is given as str.split('=', 1) cuts it:
\* "kv" for key=value, "word" for a line without '='.
Flush == [kind |-> "flush", key |-> "", value |-> ""]
Line(k, v) == [kind |-> "kv", key |-> k, value |-> v]
Word(w) == [kind |-> "word", key |-> w, value |-> ""]
Data(c) == [kind |-> "data", key |-> c, value |-> ""]

\* A packet whose four length characters are no hexadecimal number.
Bad == [kind |-> "bad", key |-> "", value |-> ""]

ClientId == Word("git-filter-client")

\* The name of a path on a pathname= line, and back.
PathName(p) == IF p = P_bar THEN "bar" ELSE "dir/foo"
PathOf(name) == IF name = "bar" THEN P_bar ELSE P_dirfoo

SessionIdle ==
    [pc |-> "idle", in |-> <<>>, pos |-> 0, lines |-> <<>>, out |-> <<>>,
     command |-> "None", pathname |-> "None", exit |-> "",
     work |-> [p \in Paths |-> NoNode],
     anchors |-> [d \in Digests |-> "none"]]

\* An exception leaves cmd_process; the process ends with a traceback.
Raise(s, exc) == [s EXCEPT !.pc = "exit", !.exit = exc]

\* The function returns.
Return(s) == [s EXCEPT !.pc = "exit", !.exit = "return"]

\* write_packet; the history keeps how far the input was read at the write.
write_packet(s, pkt) == [s EXCEPT !.out = Append(@, [pkt |-> pkt, at |-> s.pos])]

write_line(s, k, v) == write_packet(s, Line(k, v))

write_flush(s) == write_packet(s, Flush)

\* for line in lines: key, value = line.split('=', 1) raises ValueError on
\* a line without '='.
AllPairs(lines, from) == \A k \in from .. Len(lines) : lines[k].kind = "kv"

\* The value of the last line with the key, "None" without one.
LastValue(lines, key) ==
    LET ks == {k \in 1 .. Len(lines) : lines[k].key = key}
    IN  IF ks = {} THEN "None"
        ELSE lines[CHOOSE k \in ks : \A j \in ks : j <= k].value

\* A handshake that accepts any version.
handshake_done_any_version(s) ==
    IF s.lines = <<>> THEN Raise(s, "IndexError")
    ELSE IF s.lines[1] # ClientId
    THEN Return(write_flush(write_line(s, "status", "error")))
    ELSE IF ~AllPairs(s.lines, 2) THEN Raise(s, "ValueError")
    ELSE [write_flush(write_line(write_packet(s, Word("git-filter-server")),
                                 "version", "2"))
            EXCEPT !.pc = "capabilities", !.lines = <<>>]

\* A reply to the capabilities that does not wait for them.
capabilities_done_early(s) ==
    IF ~AllPairs(s.lines, 1) THEN Raise(s, "ValueError")
    ELSE [s EXCEPT !.out = Append(Append(Append(@,
                        [pkt |-> Line("capability", "clean"), at |-> 0]),
                        [pkt |-> Line("capability", "smudge"), at |-> 0]),
                        [pkt |-> Flush, at |-> 0]),
                   !.pc = "command", !.lines = <<>>]

\* The handshake lines are read: lines 84-104.
handshake_done(s) ==
    IF s.lines = <<>> THEN Raise(s, "IndexError")
    ELSE IF s.lines[1] # ClientId
    THEN Return(write_flush(write_line(s, "status", "error")))
    ELSE IF ~AllPairs(s.lines, 2) THEN Raise(s, "ValueError")
    ELSE IF \A k \in 2 .. Len(s.lines) : s.lines[k] # Line("version", "2")
    THEN Return(write_flush(write_line(s, "status", "error")))
    ELSE [write_flush(write_line(write_packet(s, Word("git-filter-server")),
                                 "version", "2"))
            EXCEPT !.pc = "capabilities", !.lines = <<>>]

\* The capability lines are read: lines 106-117.
capabilities_done(s) ==
    IF ~AllPairs(s.lines, 1) THEN Raise(s, "ValueError")
    ELSE [write_flush(write_line(write_line(s, "capability", "clean"),
                                 "capability", "smudge"))
            EXCEPT !.pc = "command", !.lines = <<>>]

\* The command lines are read: lines 119-129.
command_done(s) ==
    IF ~AllPairs(s.lines, 1) THEN Raise(s, "ValueError")
    ELSE [s EXCEPT !.command = LastValue(s.lines, "command"),
                   !.pathname = LastValue(s.lines, "pathname"),
                   !.pc = "payload", !.lines = <<>>]

\* The bytes open(pathname) reads, "none" when there is no such file.
FileBytes(s, p) ==
    IF s.work[p].kind = "file" THEN s.work[p].bytes
    ELSE IF s.work[p].kind = "link" THEN s.anchors[s.work[p].digest]
    ELSE "none"

\* Lines 138-148 for command=clean: the digest of the file is written, the
\* file is unlinked (os.path.join(anchor_path) is a non-empty string, so the
\* rename is never taken) and a symlink to the anchor path takes its place.
filter_clean(s) ==
    IF s.pathname = "None" THEN Raise(s, "TypeError")
    ELSE IF FileBytes(s, PathOf(s.pathname)) = "none" THEN Raise(s, "IOError")
    ELSE LET p == PathOf(s.pathname)
             d == compute_digest(FileBytes(s, p))
         IN  [write_packet(s, Data(d)) EXCEPT !.work[p] = [kind |-> "link", digest |-> d]]

\* The payload is read: lines 131-152.
payload_done(s) ==
    IF s.lines = <<>> THEN Raise(s, "IndexError")
    ELSE Then(write_flush(write_line(s, "status", "success")), LAMBDA s1 :
         Then(IF s1.command = "clean" THEN filter_clean(s1) ELSE s1, LAMBDA s2 :
              IF s2.pc = "exit" THEN s2
              ELSE Return(write_flush(write_flush(s2)))))

\* read_packet inside read_until_flush at the position pc names: the end of
\* the input makes int('', 16) raise ValueError; a flush ends the group.
read_packet(s) ==
    IF s.pos = Len(s.in) THEN Raise(s, "ValueError")
    ELSE Then([s EXCEPT !.pos = @ + 1], LAMBDA s1 :
         LET pkt == s.in[s1.pos]
         IN  IF pkt.kind = "bad" THEN Raise(s1, "ValueError")
             ELSE IF pkt.kind # "flush" THEN [s1 EXCEPT !.lines = Append(@, pkt)]
             ELSE IF s.pc = "handshake" THEN handshake_done(s1)
             ELSE IF s.pc = "capabilities" THEN capabilities_done(s1)
             ELSE IF s.pc = "command" THEN command_done(s1)
             ELSE payload_done(s1))

\* What the client sends.  Handshakes: a first line, then lines among which
\* version pairs, other pairs and lines that are no pair.
HandshakeTails ==
    {<<>>,
     <<Line("version", "2")>>,
     <<Line("version", "1")>>,
     <<Word("junk")>>,
     <<Line("version", "1"), Line("version", "2")>>,
     <<Line("version", "2"), Word("junk")>>,
     <<Line("other", "2")>>}

Handshakes ==
    {<<>>} \cup {<<first>> \o tail :
                   first \in {ClientId, Word("git-filter-server")},
                   tail \in HandshakeTails}

Capabilities ==
    {<<Line("capability", "clean"), Line("capability", "smudge")>>, <<>>,
     <<Line("capability", "clean"), Bad>>}

\* A request: the command lines, a flush, the content, a flush.  The
\* content of an empty file is no packet at all.
WholeRequests ==
    {<<Line("command", c), Line("pathname", PathName(P_bar)), Flush>> \o payload \o <<Flush>> :
        c \in {"clean", "smudge"}, payload \in {<<>>, <<Data("hello")>>}}

\* Requests without a mandatory key, and one with a malformed packet in its
\* content.
BrokenRequests ==
    {<<Line("command", "clean"), Flush, Data("hello"), Flush>>,
     <<Line("pathname", PathName(P_bar)), Flush, Data("hello"), Flush>>,
     <<Line("command", "clean"), Line("pathname", PathName(P_bar)), Flush, Bad, Flush>>}

Requests == WholeRequests \cup BrokenRequests

RECURSIVE RequestSeqs(_)
RequestSeqs(n) ==
    IF n = 0 THEN {<<>>}
    ELSE RequestSeqs(n - 1)
         \cup {rs \o r : rs \in RequestSeqs(n - 1), r \in Requests}

Inputs ==
    {h \o <<Flush>> \o c \o <<Flush>> \o rs :
        h \in Handshakes, c \in Capabilities, rs \in RequestSeqs(MaxCommands)}

\* git starts the filter and writes its side of the session to the pipe,
\* then closes it.  bar is a file of the working tree; the anchor of its
\* content exists or not.
FilterStart(input, anchored) ==
    /\ session.pc = "idle"
    /\ session' = [SessionIdle EXCEPT
                     !.pc = "handshake",
                     !.in = input,
                     !.work[P_bar] = [kind |-> "file", bytes |-> "hello"],
                     !.anchors[compute_digest("hello")] =
                         IF anchored THEN "hello" ELSE "none"]
    /\ UNCHANGED exceptFilter

\* cmd_process, from one read of a packet to the next.
read_handshake ==
    /\ session.pc = "handshake"
    /\ session' = read_packet(session)
    /\ UNCHANGED exceptFilter

read_capabilities ==
    /\ session.pc = "capabilities"
    /\ session' = read_packet(session)
    /\ UNCHANGED exceptFilter

read_command ==
    /\ session.pc = "command"
    /\ session' = read_packet(session)
    /\ UNCHANGED exceptFilter

read_payload ==
    /\ session.pc = "payload"
    /\ session' = read_packet(session)
    /\ UNCHANGED exceptFilter

\* ------------------------------------------------- the repository's uuid
MaxUuids == 3

\* uuid.uuid4(): a value that no earlier call gave.
uuid4 == minted + 1

\* GitConfig.__init__: git_config_get('git-big.uuid', uuid.uuid4()).  The
\* value is kept in the object; nothing is written.
GitConfig_uuid == IF git_uuid # 0 THEN git_uuid ELSE uuid4

\* Depot.__init__: refs_path = make_path('refs', config.uuid).
refs_path == GitConfig_uuid

\* App.__init__ of an invocation, which calls uuid4 when the key is not set.
App_init ==
    /\ git_uuid # 0 \/ minted < MaxUuids
    /\ minted' = IF git_uuid # 0 THEN minted ELSE minted + 1

\* init, add, rm, unlock, cp, mv: they end with _save_config, whose first
\* call is GitConfig.save (git config git-big.uuid <uuid>), unless the
\* command raised before (init cannot).
SavingCommand(raised) ==
    /\ App_init
    /\ git_uuid' = IF raised THEN git_uuid ELSE GitConfig_uuid
    /\ UNCHANGED <<refs, refs_used>>
    /\ UNCHANGED exceptUuid

\* push, pull: they call no _save_config and end with depot.save_refs, a
\* put_string to refs_path, unless the command raised before.
PushOrPull(c, raised) ==
    /\ App_init
    /\ refs' = IF raised THEN refs ELSE refs \cup {refs_path}
    /\ refs_used' = IF raised THEN refs_used ELSE refs_used \cup {<<c, refs_path>>}
    /\ UNCHANGED git_uuid
    /\ UNCHANGED exceptUuid

\* App.cmd_drop: depot.delete_refs(), a delete_object of refs_path.
Drop ==
    /\ App_init
    /\ refs' = refs \ {refs_path}
    /\ refs_used' = refs_used \cup {<<"drop", refs_path>>}
    /\ UNCHANGED git_uuid
    /\ UNCHANGED exceptUuid

\* App.cmd_reachable: depot.load_refs(), a get_string of refs_path.
Reachable ==
    /\ App_init
    /\ refs_used' = refs_used \cup {<<"reachable", refs_path>>}
    /\ UNCHANGED <<git_uuid, refs>>
    /\ UNCHANGED exceptUuid

\* git clone and `git big set-depot`: a clone has a local configuration of
\* its own, in which git-big.uuid is not set; the depot is the same.
CloneConfig ==
    /\ git_uuid' = 0
    /\ refs_used' = {}
    /\ UNCHANGED <<minted, refs>>
    /\ UNCHANGED exceptUuid

InitUuid ==
    /\ git_uuid = 0
    /\ minted = 0
    /\ refs = {}
    /\ refs_used = {}

\* ------------------------------------------------------------ atomic_open
\* A file is the sequence of the chunks written to it; NoFile is no file.
NoFile == <<"absent">>
OldContent == <<"old1", "old2">>
NewContent == <<"new1", "new2">>

\* The destinations written through atomic_open: the manifest and the user
\* configuration (App._save_config) and the presence index (DepotIndex._save).
Destinations == {".gitbig", "~/.gitbig", "index"}

AtomIdle ==
    [pc |-> "idle", which |-> ".gitbig", old |-> NoFile, dst |-> NoFile,
     tmp |-> NoFile, xdev |-> FALSE, seen |-> {}]

\* tempfile.mkstemp() and os.close: an empty file in the system's temporary
\* directory, which is on the file system of the destination or on another
\* one (xdev).
atomic_open_mkstemp(which, had_old, xdev) ==
    /\ atom.pc = "idle"
    /\ atom' = [AtomIdle EXCEPT
                  !.pc = "write", !.which = which, !.xdev = xdev,
                  !.old = IF had_old THEN OldContent ELSE NoFile,
                  !.dst = IF had_old THEN OldContent ELSE NoFile,
                  !.tmp = <<>>]
    /\ UNCHANGED exceptAtom

\* The body of the with statement writes the next chunk to the temporary file.
atomic_open_write ==
    /\ atom.pc = "write"
    /\ Len(atom.tmp) < Len(NewContent)
    /\ atom' = [atom EXCEPT !.tmp = Append(@, NewContent[Len(@) + 1])]
    /\ UNCHANGED exceptAtom

\* A write raises (the disk is full): control goes to the finally clause.
atomic_open_write_raises ==
    /\ atom.pc = "write"
    /\ Len(atom.tmp) < Len(NewContent)
    /\ atom' = [atom EXCEPT !.pc = "finally"]
    /\ UNCHANGED exceptAtom

\* The file is closed; on Windows an existing destination is unlinked first.
atomic_open_close ==
    /\ atom.pc = "write"
    /\ atom.tmp = NewContent
    /\ atom' = [atom EXCEPT !.pc = IF IS_WIN /\ atom.dst # NoFile THEN "unlink"
                                   ELSE "rename"]
    /\ UNCHANGED exceptAtom

atomic_open_unlink_dst ==
    /\ atom.pc = "unlink"
    /\ atom' = [atom EXCEPT !.dst = NoFile, !.pc = "rename"]
    /\ UNCHANGED exceptAtom

\* os.rename(tmp_path, dst_path): one step on one file system; across file
\* systems it raises and the except clause goes on with shutil.copy2.
atomic_open_rename ==
    /\ atom.pc = "rename"
    /\ atom' = IF atom.xdev THEN [atom EXCEPT !.pc = "open"]
               ELSE [atom EXCEPT !.dst = atom.tmp, !.tmp = NoFile, !.pc = "finally"]
    /\ UNCHANGED exceptAtom

\* shutil.copy2(tmp_path, dst_path): opens the destination for writing,
\* which empties it, and writes the chunks one after the other.
atomic_open_copy2 ==
    /\ atom.pc \in {"open", "copy"}
    /\ atom' = IF atom.pc = "open"
               THEN [atom EXCEPT !.dst = <<>>, !.pc = "copy"]
               ELSE IF Len(atom.dst) < Len(atom.tmp)
               THEN [atom EXCEPT !.dst = Append(@, atom.tmp[Len(@) + 1])]
               ELSE [atom EXCEPT !.pc = "finally"]
    /\ UNCHANGED exceptAtom

\* finally: if os.path.exists(tmp_path): os.unlink(tmp_path).
atomic_open_finally ==
    /\ atom.pc = "finally"
    /\ atom' = [atom EXCEPT !.tmp = NoFile, !.pc = "done"]
    /\ UNCHANGED exceptAtom

\* Another process opens the destination and reads what is there.
ReadDestination ==
    /\ atom.pc # "idle"
    /\ atom' = [atom EXCEPT !.seen = @ \cup {atom.dst}]
    /\ UNCHANGED exceptAtom

InitAux ==
    /\ atom = AtomIdle
    /\ net = "up"
    /\ InitScan
    /\ merge = MergeIdle
    /\ InitLock
    /\ session = SessionIdle
    /\ InitUuid

\* -------------------------------------------------------------------- spec

InitOn(platforms, depots) ==
    /\ IS_WIN \in platforms
    /\ has_depot \in depots
    /\ files = [p \in Paths |-> NoDigest]
    /\ working = [p \in Paths |-> NoNode]
    /\ inodes = [i \in Inos |-> FreeInode]
    /\ anchors = [d \in Digests |-> 0]
    /\ cache = [d \in Digests |-> 0]
    /\ depot = [d \in Digests |-> "none"]
    /\ index = {}
    /\ pushed = FALSE
    /\ fresh = FALSE
    /\ last = Step("init", "ok")
    /\ InitAux

Init == InitOn({FALSE}, {TRUE})

Next ==
    \/ \E ps \in AddArgs : cmd_add(ps)
    \/ \E p \in Paths : cmd_remove(p)
    \/ \E p \in Paths : cmd_unlock(p)
    \/ \E src, tgt \in Paths : cmd_copy(src, tgt)
    \/ \E src, tgt \in Paths : cmd_move(src, tgt)
    \/ cmd_push
    \/ \E ps \in SUBSET Paths, soft \in BOOLEAN : cmd_pull(ps, soft)
    \/ \E p \in Paths, c \in Contents : UserCreate(p, c)
    \/ \E p \in Paths : UserUnlink(p)
    \/ \E p \in Paths, c \in Contents : UserEdit(p, c)
    \/ GitClone

Spec == Init /\ [][Next]_vars

\* The local commands alone, in a repository that starts empty: no push, no
\* pull, no clone.
NextLocal ==
    \/ \E ps \in AddArgs : cmd_add(ps)
    \/ \E p \in Paths : cmd_remove(p)
    \/ \E p \in Paths : cmd_unlock(p)
    \/ \E src, tgt \in Paths : cmd_copy(src, tgt)
    \/ \E src, tgt \in Paths : cmd_move(src, tgt)
    \/ \E p \in Paths, c \in Contents : UserCreate(p, c)
    \/ \E p \in Paths : UserUnlink(p)
    \/ \E p \in Paths, c \in Contents : UserEdit(p, c)

SpecLocal == Init /\ [][NextLocal]_vars

\* Windows, where unlinking a read-only file is refused: every command, on
\* files of one content that the user creates and deletes.
NextWin ==
    \/ \E ps \in AddArgs : cmd_add(ps)
    \/ \E p \in Paths : cmd_remove(p)
    \/ \E p \in Paths : cmd_unlock(p)
    \/ \E src, tgt \in Paths : cmd_copy(src, tgt)
    \/ \E src, tgt \in Paths : cmd_move(src, tgt)
    \/ cmd_push
    \/ \E ps \in SUBSET Paths, soft \in BOOLEAN : cmd_pull(ps, soft)
    \/ \E p \in Paths : UserCreate(p, "hello")
    \/ \E p \in Paths : UserUnlink(p)

SpecWin == InitOn({TRUE}, {TRUE}) /\ [][NextWin]_vars

\* Windows with clones: what NextWin does, and git clone.
NextWinClone ==
    \/ \E ps \in AddArgs : cmd_add(ps)
    \/ \E p \in Paths : cmd_remove(p)
    \/ \E p \in Paths : cmd_unlock(p)
    \/ \E src, tgt \in Paths : cmd_copy(src, tgt)
    \/ \E src, tgt \in Paths : cmd_move(src, tgt)
    \/ cmd_push
    \/ \E ps \in SUBSET Paths, soft \in BOOLEAN : cmd_pull(ps, soft)
    \/ \E p \in Paths : UserCreate(p, "hello")
    \/ \E p \in Paths : UserUnlink(p)
    \/ GitClone

SpecWinClone == InitOn({TRUE}, {TRUE}) /\ [][NextWinClone]_vars

\* Windows with clones and a user who edits the files that let them.
NextWinEdit ==
    \/ \E ps \in AddArgs : cmd_add(ps)
    \/ cmd_push
    \/ \E ps \in SUBSET Paths, soft \in BOOLEAN : cmd_pull(ps, soft)
    \/ \E p \in Paths : UserCreate(p, "hello")
    \/ \E p \in Paths, c \in Contents : UserEdit(p, c)
    \/ GitClone

SpecWinEdit == InitOn({TRUE}, {TRUE}) /\ [][NextWinEdit]_vars

\* A repository in which no depot is configured: the local commands, and
\* push, pull and drop.
NextNoDepot ==
    \/ \E ps \in AddArgs : cmd_add(ps)
    \/ \E p \in Paths : cmd_remove(p)
    \/ \E p \in Paths : cmd_unlock(p)
    \/ cmd_push
    \/ \E ps \in SUBSET Paths, soft \in BOOLEAN : cmd_pull(ps, soft)
    \/ cmd_drop
    \/ \E p \in Paths, c \in Contents : UserCreate(p, c)
    \/ \E p \in Paths : UserUnlink(p)

SpecNoDepot == InitOn({FALSE}, {FALSE}) /\ [][NextNoDepot]_vars

\* A connection to the depot that breaks: add, push and pull in clones.
NextNet ==
    \/ \E ps \in AddArgs : cmd_add(ps)
    \/ cmd_push
    \/ \E ps \in SUBSET Paths, soft \in BOOLEAN : cmd_pull(ps, soft)
    \/ \E p \in Paths, c \in Contents : UserCreate(p, c)
    \/ GitClone
    \/ NetCut
    \/ NetRestore

SpecNet == Init /\ [][NextNet]_vars

\* add, push and commit in any order, in one repository.
NextReport ==
    \/ \E ps \in AddArgs : cmd_add(ps)
    \/ cmd_push
    \/ \E p \in Paths, c \in Contents : UserCreate(p, c)
    \/ GitCommitManifest

SpecReport == Init /\ [][NextReport]_vars

\* A depot whose objects other parties delete: add, push and pull in clones.
NextDepot ==
    \/ \E ps \in AddArgs : cmd_add(ps)
    \/ cmd_push
    \/ \E ps \in SUBSET Paths, soft \in BOOLEAN : cmd_pull(ps, soft)
    \/ \E p \in Paths, c \in Contents : UserCreate(p, c)
    \/ \E p \in Paths : UserUnlink(p)
    \/ GitClone
    \/ \E d \in Digests : DepotDelete(d)

SpecDepot == Init /\ [][NextDepot]_vars

\* The reachability scan over the histories of .gitbig.
NextReach ==
    \/ \E f \in Manifests, parents \in ParentChoices(history) : GitCommit(f, parents)
    \/ ScanStart
    \/ \E obj \in Texts : ScanShow(obj)
    \/ ScanReturn

SpecReach == Init /\ [][NextReach]_vars

\* The merge driver over the manifests of the two sides and the ancestor.
NextMerge ==
    \/ \E a \in Texts, c \in Texts, o \in Texts : GitMerge(a, c, o)
    \/ cmd_custom_merge

SpecMerge == Init /\ [][NextMerge]_vars

\* Processes started while others run.
NextLock ==
    \/ \E i \in Procs, l \in Launchers : Launch(i, l)
    \/ \E i \in Procs : Singlet_enter(i)
    \/ \E i \in Procs : cli_check(i)
    \/ \E i \in Procs : cli_act(i)
    \/ \E i \in Procs : Exit(i)

SpecLock == Init /\ [][NextLock]_vars

\* The invocations of the clones of one repository, as far as the uuid goes.
NextUuid ==
    \/ \E raised \in BOOLEAN : SavingCommand(raised)
    \/ \E c \in {"push", "pull"}, raised \in BOOLEAN : PushOrPull(c, raised)
    \/ Drop
    \/ Reachable
    \/ CloneConfig

SpecUuid == Init /\ [][NextUuid]_vars

\* The writes through atomic_open, on either platform, beside a reader.
NextAtom ==
    \/ \E which \in Destinations, had_old \in BOOLEAN, xdev \in BOOLEAN :
          atomic_open_mkstemp(which, had_old, xdev)
    \/ atomic_open_write
    \/ atomic_open_write_raises
    \/ atomic_open_close
    \/ atomic_open_unlink_dst
    \/ atomic_open_rename
    \/ atomic_open_copy2
    \/ atomic_open_finally
    \/ ReadDestination

SpecAtom == InitOn({FALSE, TRUE}, {TRUE}) /\ [][NextAtom]_vars

\* The sessions of the filter server.
NextFilter ==
    \/ /\ session.pc = "idle"
       /\ \E input \in Inputs, anchored \in BOOLEAN : FilterStart(input, anchored)
    \/ read_handshake
    \/ read_capabilities
    \/ read_command
    \/ read_payload

SpecFilter == Init /\ [][NextFilter]_vars

\* -------------------------------------------------------------- properties

\* The state an invocation of `git big add ps` leaves, from the current state.
After_add(ps) == Outcome(Run(LAMBDA st : App_cmd_add(st, ps)))

ArgSet(ps) == {ps[k] : k \in 1 .. Len(ps)}

\* The digest of the bytes an inode holds.
ContentDigest(st, i) == compute_digest(st.inodes[i].content)

\* p is a regular file of the working tree, holding bytes of digest d.
RegularWith(p, d) ==
    working[p].kind = "file" /\ ContentDigest(Cur, working[p].ino) = d

\* p is the symlink `add` makes for digest d, and its anchor is there.
LinkedTo(st, p, d) ==
    /\ st.working[p].kind = "link"
    /\ normpath(dirname(p), st.working[p].target) = anchor_path(d)
    /\ st.anchors[d] # 0
    /\ Resolve(st, p) = st.anchors[d]

\* The names of a directory (cache or anchors) under which bytes of digest d
\* are stored.
ObjectsWith(st, dir, d) ==
    {x \in Digests : dir[x] # 0 /\ ContentDigest(st, dir[x]) = d}

\* C1 (Dedup): when a regular file p is added and a path q with the same
\* content is added with it, or was added before and is still linked, the
\* add succeeds and leaves exactly one cache object and exactly one anchor
\* object with that content, and p and q are symlinks to that one anchor.
C1_Dedup ==
    \A ps \in AddArgs : \A z \in {After_add(ps)} :
      \A p \in ArgSet(ps), q \in Paths, d \in Digests :
        (/\ AllExist(Cur, ps)
         /\ q # p
         /\ RegularWith(p, d)
         /\ \/ q \in ArgSet(ps) /\ RegularWith(q, d)
            \/ files[q] = d /\ LinkedTo(Cur, q, d))
        => /\ z.status = "ok"
           /\ ObjectsWith(z, z.cache, d) = {d}
           /\ ObjectsWith(z, z.anchors, d) = {d}
           /\ LinkedTo(z, p, d)
           /\ LinkedTo(z, q, d)

\* Two paths were added and lead to one anchor.
C1_Witness ==
    /\ last = Step("add", "ok")
    /\ files[P_bar] # NoDigest
    /\ files[P_dirfoo] = files[P_bar]
    /\ LinkedTo(Cur, P_bar, files[P_bar])
    /\ LinkedTo(Cur, P_dirfoo, files[P_bar])
    /\ ObjectsWith(Cur, cache, files[P_bar]) = {files[P_bar]}

\* C2 (add postcondition): after `add` of paths that exist, each argument p
\* that was a regular file with digest d is a symlink whose target leads from
\* p's directory to the anchor of d, the anchor and the cache object of d
\* exist and are one inode, and the manifest maps p to d.
C2_AddPostcondition ==
    \A ps \in AddArgs : \A z \in {After_add(ps)} :
      \A p \in ArgSet(ps), d \in Digests :
        (AllExist(Cur, ps) /\ RegularWith(p, d))
        => /\ z.status = "ok"
           /\ LinkedTo(z, p, d)
           /\ z.working[p].target = relpath(anchor_path(d), dirname(p))
           /\ z.cache[d] # 0
           /\ z.anchors[d] = z.cache[d]
           /\ z.files[p] = d

\* An add has just linked dir/foo: target ../.gitbig-anchors/<digest>.
C2_Witness ==
    /\ last = Step("add", "ok")
    /\ files[P_dirfoo] # NoDigest
    /\ working[P_dirfoo] = LinkNode(<<"..", ".gitbig-anchors", files[P_dirfoo]>>)
    /\ anchors[files[P_dirfoo]] = cache[files[P_dirfoo]]
    /\ cache[files[P_dirfoo]] # 0

\* C4 (Idempotence of add): `add` of a path that is tracked and still the
\* symlink add made changes nothing: manifest, working tree, cache objects,
\* anchors and their bytes and permissions stay as they are.
C4_AddIdempotent ==
    \A p \in Paths : \A z \in {After_add(<<p>>)} :
        (files[p] # NoDigest /\ LinkedTo(Cur, p, files[p]))
        => /\ z.status = "ok"
           /\ z.files = files
           /\ z.working = working
           /\ z.cache = cache
           /\ z.anchors = anchors
           /\ z.inodes = inodes

\* A tracked, linked path whose object is in the cache: what a second add meets.
C4_Witness ==
    /\ last = Step("add", "ok")
    /\ \E p \in Paths :
          /\ files[p] # NoDigest
          /\ LinkedTo(Cur, p, files[p])
          /\ cache[files[p]] # 0
          /\ After_add(<<p>>).cache = cache

\* C5 (Change detection): when p is tracked with digest d1, is now a regular
\* file with digest d2 # d1, and the cache object of d1 exists, `add p` maps
\* p to d2, stores and links d2, and leaves the cache object of d1 in place
\* with its bytes and permissions.
C5_ChangeDetection ==
    \A p \in Paths, d1 \in Digests, d2 \in Digests : \A z \in {After_add(<<p>>)} :
        (files[p] = d1 /\ d2 # d1 /\ RegularWith(p, d2) /\ cache[d1] # 0)
        => /\ z.status = "ok"
           /\ z.files[p] = d2
           /\ z.cache[d2] # 0
           /\ ContentDigest(z, z.cache[d2]) = d2
           /\ LinkedTo(z, p, d2)
           /\ z.cache[d1] # 0
           /\ z.inodes[z.cache[d1]] = inodes[cache[d1]]

\* bar was re-added with other content: the manifest has the new digest and
\* the cache still holds an object of the other digest.
C5_Witness ==
    /\ last = Step("add", "ok")
    /\ files[P_bar] = compute_digest("world")
    /\ files[P_dirfoo] = NoDigest
    /\ LinkedTo(Cur, P_bar, files[P_bar])
    /\ cache[compute_digest("hello")] # 0
    /\ cache[compute_digest("world")] # 0

\* C3 (Read-only enforcement): in every state reached by add, rm, mv, cp,
\* unlock, push and pull, no cache object and no anchor object has write
\* permission.
C3_ReadOnly ==
    \A d \in Digests :
        /\ cache[d] # 0 => ~inodes[cache[d]].writable
        /\ anchors[d] # 0 => ~inodes[anchors[d]].writable

\* The bytes of digest d can be had from the working tree, the cache or the
\* depot.
Available(d) ==
    \/ cache[d] # 0 /\ ContentDigest(Cur, cache[d]) = d
    \/ \E q \in Paths : Resolve(Cur, q) # 0 /\ ContentDigest(Cur, Resolve(Cur, q)) = d
    \/ depot[d] # "none" /\ compute_digest(depot[d]) = d

After_pull(ps, soft) == Outcome(Run(LAMBDA st : App_cmd_pull(st, ps, soft)))

\* A pull with no paths covers every manifest path, one with paths those.
Covers(ps, p) == ps = {} \/ p \in ps

\* A hard pull: --hard, or explicit paths.
HardPull(ps, soft) == ps # {} \/ ~soft

\* The regular file at p is as it was.
Untouched(z, p) ==
    /\ z.working[p].kind = "file"
    /\ z.inodes[z.working[p].ino] = inodes[working[p].ino]

Dirty(p) == files[p] # NoDigest /\ working[p].kind = "file"

C10_SoftPullGoesOn ==
    \A z \in {After_pull({}, TRUE)} :
      \A p \in Paths :
        (files[p] # NoDigest /\ cache[files[p]] = 0 /\ \A q \in Paths : ~Dirty(q))
        => /\ z.status = "ok"
           /\ \A q \in Paths :
                 (files[q] # NoDigest /\ cache[files[q]] # 0)
                 => LinkedTo(z, q, files[q])

\* The state an invocation of `git big push` leaves.
After_push == Outcome(Run(LAMBDA st : App_cmd_push(st)))

\* C11 (Batch continuation): an error on one file of a batch does not keep
\* the other files of the batch from being processed.  For pull: when a
\* covered path p is a dirty file whose object is cached, every other covered
\* path q whose object is cached and whose working path is free is linked.
\* For push: when the cache object of p is missing, so that its upload fails,
\* the object of every other manifest path q that is cached is in the depot
\* afterwards.
C11_BatchContinuation ==
    /\ \A ps \in SUBSET Paths, soft \in BOOLEAN : \A z \in {After_pull(ps, soft)} :
         \A p \in Paths, q \in Paths :
           (/\ p # q /\ Covers(ps, p) /\ Covers(ps, q)
            /\ Dirty(p) /\ cache[files[p]] # 0
            /\ files[q] # NoDigest /\ cache[files[q]] # 0
            /\ working[q].kind = "none")
           => LinkedTo(z, q, files[q])
    /\ \A z \in {After_push} :
         \A p \in Paths, q \in Paths :
           (/\ p # q
            /\ files[p] # NoDigest /\ cache[files[p]] = 0
            /\ depot[files[p]] = "none" /\ files[p] \notin index
            /\ files[q] # NoDigest /\ cache[files[q]] # 0)
           => z.depot[files[q]] # "none"

\* The manifest leads to an object of the depot wherever it has an entry,
\* and the object has the bytes of the digest.
InDepot(st) ==
    \A p \in Paths :
        st.files[p] # NoDigest
        => /\ st.depot[st.files[p]] # "none"
           /\ compute_digest(st.depot[st.files[p]]) = st.files[p]

Puts(log) == {k \in 1 .. Len(log) : log[k][1] = "put_file"}

\* A push that follows at once the invocation that left z.
PushAgain(z) == App_cmd_push([z EXCEPT !.log = <<>>])

EndsWithRefs(log) ==
    /\ Len(log) > 0
    /\ log[Len(log)] = <<"put_string", "refs">>
    /\ \A k \in 1 .. Len(log) - 1 : log[k][1] \in {"put_file", "get_file"}

DigestsOf(text) == {text.files[k][2] : k \in 1 .. Len(text.files)}

\* C15 (Reachability correctness): the set the scan returns is the union of
\* the digest sets of the distinct texts .gitbig has in the commits of the
\* history, however many commits have each text, and the scan reads no blob
\* twice.
C15_Reachability ==
    /\ \A t \in Texts : scan.reads[t] <= 1
    /\ scan.pc = "done"
       => scan.reachable = UNION {DigestsOf(history[k].text) : k \in 1 .. Len(history)}

\* The files map a text of .gitbig gives when read.
FilesOf(text) == json_loads(text).files

\* C16 (Manifest merge): the driver leaves in the current file a manifest in
\* which every key of other has other's digest, every key of current alone
\* keeps current's digest, and there is no other key; the text written is the
\* same whatever the ancestor file holds.
C16_ManifestMerge ==
    /\ merge.pc = "done"
       => \A p \in Paths :
            FilesOf(merge.current)[p] =
                IF FilesOf(merge.other)[p] # NoDigest THEN FilesOf(merge.other)[p]
                ELSE FilesOf(merge.ours)[p]
    /\ merge.pc = "start"
       => \A a \in Texts :
            App_cmd_custom_merge([merge EXCEPT !.ancestor = a]).current
                = App_cmd_custom_merge(merge).current

\* The driver has run on two manifests that differ at bar, where dir/foo is
\* a key of current only, with an ancestor that has neither digest.
C16_Witness ==
    /\ merge.pc = "done"
    /\ FilesOf(merge.ours)[P_bar] = compute_digest("hello")
    /\ FilesOf(merge.ours)[P_dirfoo] = compute_digest("hello")
    /\ FilesOf(merge.other)[P_bar] = compute_digest("world")
    /\ FilesOf(merge.other)[P_dirfoo] = NoDigest
    /\ FilesOf(merge.ancestor)[P_bar] = NoDigest
    /\ FilesOf(merge.current)[P_bar] = compute_digest("world")
    /\ FilesOf(merge.current)[P_dirfoo] = compute_digest("hello")

\* C17 (Cross-invocation mutual exclusion): at most one process at a time
\* is inside a command body, whichever way the processes were launched.
C17_MutualExclusion ==
    \A i \in Procs, j \in Procs :
        (procs[i].pc \in InBody /\ procs[j].pc \in InBody) => i = j

\* The position of the n-th flush the client sends, 0 when there are fewer.
FlushAt(in, n) ==
    LET at == {k \in 1 .. Len(in) :
                 in[k] = Flush /\ Cardinality({j \in 1 .. k : in[j] = Flush}) = n}
    IN  IF at = {} THEN 0 ELSE CHOOSE k \in at : TRUE

\* The lines the client sends before its n-th flush, after the one before.
Group(in, n) ==
    SubSeq(in, (IF n = 1 THEN 0 ELSE FlushAt(in, n - 1)) + 1, FlushAt(in, n) - 1)

\* The packets written so far.
OutPkts == [k \in 1 .. Len(session.out) |-> session.out[k].pkt]

ErrorReply == <<Line("status", "error"), Flush>>

HasVersion2(hs) == \E k \in 2 .. Len(hs) : hs[k] = Line("version", "2")

ValidHandshake(hs) ==
    /\ hs # <<>>
    /\ hs[1] = ClientId
    /\ AllPairs(hs, 2)
    /\ HasVersion2(hs)

\* The replies in the order of the protocol, for the first request of the
\* input when there is one; bar held "hello" when the session began.
Replies(in) ==
    <<Word("git-filter-server"), Line("version", "2"), Flush,
      Line("capability", "clean"), Line("capability", "smudge"), Flush>>
    \o (IF FlushAt(in, 4) = 0 THEN <<>>
        ELSE <<Line("status", "success"), Flush>>
             \o (IF LastValue(Group(in, 3), "command") = "clean"
                 THEN <<Data(compute_digest("hello"))>> ELSE <<>>)
             \o <<Flush, Flush>>)

\* The flush of the client the k-th packet of the replies answers.
Answers(k) == IF k <= 3 THEN 1 ELSE IF k <= 6 THEN 2 ELSE 4

\* C19 (Filter reply ordering): after a valid handshake, what the server
\* has written is at every moment a beginning of: identifier, version=2,
\* flush; capability=clean, capability=smudge, flush; status=success, flush,
\* the digest for clean, two flushes; each part written only once the
\* client's handshake flush, capability flush and payload flush were read;
\* and a server that returns has written all of it.
C19_ReplyOrdering ==
    ValidHandshake(Group(session.in, 1))
    => \A exp \in {Replies(session.in)} :
         /\ Len(session.out) <= Len(exp)
         /\ \A k \in 1 .. Len(session.out) :
               /\ session.out[k].pkt = exp[k]
               /\ FlushAt(session.in, Answers(k)) # 0
               /\ session.out[k].at >= FlushAt(session.in, Answers(k))
         /\ (session.pc = "exit" /\ session.exit = "return")
            => Len(session.out) = Len(exp)

\* The server has returned from a session with a clean request: eleven
\* packets written, the digest among them.
C19_Witness ==
    /\ session.pc = "exit"
    /\ session.exit = "return"
    /\ ValidHandshake(Group(session.in, 1))
    /\ session.command = "clean"
    /\ Len(session.out) = 11
    /\ session.out[9].pkt = Data(compute_digest("hello"))

\* The requests of the input, and the responses written.
NumRequests(in) ==
    Cardinality({n \in 3 .. Len(in) : FlushAt(in, n) # 0 /\ n % 2 = 0})

NumResponses ==
    Cardinality({k \in 1 .. Len(session.out) :
                   session.out[k].pkt = Line("status", "success")})

\* C20 (Filter command loop): after the capability exchange the server
\* answers every request of the client; when it stops it has read the whole
\* input and written k responses to the k requests.
C20_CommandLoop ==
    (/\ session.pc = "exit"
     /\ ValidHandshake(Group(session.in, 1))
     /\ AllPairs(Group(session.in, 2), 1))
    => /\ NumResponses = NumRequests(session.in)
       /\ session.pos = Len(session.in)

\* C21 (Filter clean preserves bytes): when the server has answered a clean
\* request for bar, which held "hello", the anchor of the digest of "hello"
\* exists and holds "hello", and bar is a symlink that leads to it, whether
\* the anchor was there before or not.
C21_CleanPreservesBytes ==
    (/\ session.pc = "exit"
     /\ session.exit = "return"
     /\ session.command = "clean"
     /\ session.pathname = PathName(P_bar))
    => /\ session.anchors[compute_digest("hello")] = "hello"
       /\ session.work[P_bar] = [kind |-> "link", digest |-> compute_digest("hello")]
       /\ FileBytes(session, P_bar) = "hello"

\* The request the server reads lacks the key.
Lacks(in, key) == \A k \in 1 .. Len(Group(in, 3)) : Group(in, 3)[k].key # key

\* C22 (Filter fatal errors): a malformed packet ends the session with an
\* error at the moment it is read; and a request without command= or without
\* pathname= is never answered with status=success, the session ends with an
\* error.
C22_FatalErrors ==
    /\ \A k \in 1 .. session.pos :
          session.in[k] = Bad
          => session.pc = "exit" /\ session.exit = "ValueError" /\ session.pos = k
    /\ (/\ ValidHandshake(Group(session.in, 1))
        /\ FlushAt(session.in, 3) # 0
        /\ Lacks(session.in, "command") \/ Lacks(session.in, "pathname"))
       => /\ NumResponses = 0
          /\ session.pc = "exit" => session.exit # "return"

\* The state an invocation of `git big rm p` leaves.
After_remove(p) == Outcome(Run(LAMBDA st : App_cmd_remove(st, p)))

\* The cache and anchor objects of z are those of the current state: the
\* same digests, each file with the same bytes and permission, and an anchor
\* is the same file as the cache object where it was.
SameObjects(z) ==
    \A d \in Digests :
        /\ (z.cache[d] = 0) <=> (cache[d] = 0)
        /\ (z.anchors[d] = 0) <=> (anchors[d] = 0)
        /\ cache[d] # 0 => z.inodes[z.cache[d]] = inodes[cache[d]]
        /\ anchors[d] # 0 => z.inodes[z.anchors[d]] = inodes[anchors[d]]
        /\ (cache[d] # 0 /\ anchors[d] # 0)
           => ((z.cache[d] = z.anchors[d]) <=> (cache[d] = anchors[d]))

After_unlock(p) == Outcome(Run(LAMBDA st : App_cmd_unlock(st, p)))

After_move(src, dst) == Outcome(Run(LAMBDA st : App_cmd_move(st, src, dst)))

\* p is a symlink whose target, taken from p's directory, is the anchor path
\* of d, written as a relative path.
SymlinkTo(st, p, d) ==
    /\ st.working[p].kind = "link"
    /\ st.working[p].target = symlink_path(p, d)
    /\ normpath(dirname(p), st.working[p].target) = anchor_path(d)
    /\ Resolve(st, p) = st.anchors[d]

\* C25 (Move): `mv src dst` on a tracked path src of digest d and a free
\* destination is carried out when src is linked to its anchor, and when it
\* is carried out nothing is at src, dst is a symlink to the anchor of d
\* relative to dst's directory, the manifest maps dst to d and has no key
\* src, and the cache and anchor objects are as they were.
C25_Move ==
    \A src \in Paths, dst \in Paths, d \in Digests :
      (files[src] = d /\ src # dst /\ working[dst].kind = "none")
      => \A z \in {After_move(src, dst)} :
           /\ LinkedTo(Cur, src, d) => z.status = "ok"
           /\ z.status = "ok"
              => /\ z.working[src] = NoNode
                 /\ SymlinkTo(z, dst, d)
                 /\ z.files[dst] = d
                 /\ z.files[src] = NoDigest
                 /\ \A q \in Paths \ {src, dst} : z.files[q] = files[q]
                 /\ SameObjects(z)

\* bar is linked, dir/foo is free, and the move of bar to dir/foo succeeds.
C25_Witness ==
    /\ files[P_bar] # NoDigest
    /\ LinkedTo(Cur, P_bar, files[P_bar])
    /\ working[P_dirfoo].kind = "none"
    /\ After_move(P_bar, P_dirfoo).status = "ok"
    /\ After_move(P_bar, P_dirfoo).files[P_dirfoo] = files[P_bar]
    /\ LinkedTo(After_move(P_bar, P_dirfoo), P_dirfoo, files[P_bar])

\* The state an invocation of `git big cp src dst` leaves.
After_copy(src, dst) == Outcome(Run(LAMBDA st : App_cmd_copy(st, src, dst)))

\* The cache objects and the anchor objects.
CacheObjects(st) == {d \in Digests : st.cache[d] # 0}
AnchorObjects(st) == {d \in Digests : st.anchors[d] # 0}

\* C26 (Copy): `cp src dst` on a tracked path src of digest d and a free
\* destination is carried out when src is linked to its anchor, and when it
\* is carried out the manifest maps src and dst to d, dst is a symlink to
\* the anchor of d, src is as it was (so both are symlinks to that anchor
\* when src was one), and the cache and anchor objects are the same in
\* number and in bytes: no file is created.
C26_Copy ==
    \A src \in Paths, dst \in Paths, d \in Digests :
      (files[src] = d /\ src # dst /\ working[dst].kind = "none")
      => \A z \in {After_copy(src, dst)} :
           /\ LinkedTo(Cur, src, d) => z.status = "ok"
           /\ z.status = "ok"
              => /\ z.files[src] = d
                 /\ z.files[dst] = d
                 /\ SymlinkTo(z, dst, d)
                 /\ LinkedTo(Cur, src, d)
                    => /\ LinkedTo(z, src, d)
                       /\ Resolve(z, src) = Resolve(z, dst)
                 /\ \A q \in Paths \ {src, dst} : z.files[q] = files[q]
                 /\ Cardinality(CacheObjects(z)) = Cardinality(CacheObjects(Cur))
                 /\ Cardinality(AnchorObjects(z)) = Cardinality(AnchorObjects(Cur))
                 /\ SameObjects(z)
                 /\ Cardinality(Referenced(z) \ {0}) = Cardinality(Referenced(Cur) \ {0})

\* bar is linked, dir/foo is free, and the copy of bar to dir/foo succeeds.
C26_Witness ==
    /\ files[P_bar] # NoDigest
    /\ LinkedTo(Cur, P_bar, files[P_bar])
    /\ working[P_dirfoo].kind = "none"
    /\ After_copy(P_bar, P_dirfoo).status = "ok"
    /\ LinkedTo(After_copy(P_bar, P_dirfoo), P_bar, files[P_bar])
    /\ LinkedTo(After_copy(P_bar, P_dirfoo), P_dirfoo, files[P_bar])

\* The digests of the manifest whose objects are in the cache.
ManifestInCache(st) ==
    {d \in Digests : in_cache(st, d) /\ \E p \in Paths : st.files[p] = d}

\* C27 (Anchors after a full pull): when a pull without paths, soft or hard,
\* completes, the anchors are exactly the digests of the manifest whose
\* objects are in the cache, each a hard link of its cache object, and every
\* manifest path of such a digest is a symlink to the anchor of that digest.
C27_FullPullAnchors ==
    \A soft \in BOOLEAN : \A z \in {After_pull({}, soft)} :
        z.status = "ok"
        => /\ AnchorObjects(z) = ManifestInCache(z)
           /\ \A d \in AnchorObjects(z) : z.anchors[d] = z.cache[d]
           /\ \A p \in Paths :
                 z.files[p] \in ManifestInCache(z) => SymlinkTo(z, p, z.files[p])

\* The anchor of a digest the manifest no longer holds is there, another
\* digest of the manifest is in the cache, and the full pull succeeds.
C27_Witness ==
    /\ \E d \in Digests : anchors[d] # 0 /\ \A p \in Paths : files[p] # d
    /\ ManifestInCache(Cur) # {}
    /\ After_pull({}, TRUE).status = "ok"
    /\ AnchorObjects(After_pull({}, TRUE)) # AnchorObjects(Cur)
    /\ AnchorObjects(After_pull({}, TRUE)) # {}

\* The state the same pull leaves when it is run again on what a first
\* invocation left.
PullAgain(z, ps, soft) ==
    Sweep(Then([z EXCEPT !.log = <<>>], LAMBDA st : App_cmd_pull(st, ps, soft)))

\* The disk of two states is the same: manifest, working tree, anchors,
\* cache and depot, with every file's bytes and permission.
SameDisk(a, b) ==
    /\ a.files = b.files
    /\ a.working = b.working
    /\ a.anchors = b.anchors
    /\ a.cache = b.cache
    /\ a.inodes = b.inodes
    /\ a.depot = b.depot
    /\ a.index = b.index

SameNode(z, q) ==
    /\ z.working[q].kind = working[q].kind
    /\ z.working[q].target = working[q].target
    /\ working[q].kind = "file" => z.inodes[z.working[q].ino] = inodes[working[q].ino]

\* The cache object and the anchor of digest d are the same in z as now.
SameObject(z, d) ==
    /\ (z.cache[d] = 0) <=> (cache[d] = 0)
    /\ (z.anchors[d] = 0) <=> (anchors[d] = 0)
    /\ cache[d] # 0 => z.inodes[z.cache[d]] = inodes[cache[d]]
    /\ anchors[d] # 0 => z.inodes[z.anchors[d]] = inodes[anchors[d]]

\* The anchors that are there now are there in z, unchanged.
AnchorsKept(z) ==
    \A d \in Digests :
        anchors[d] # 0 => z.anchors[d] # 0 /\ z.inodes[z.anchors[d]] = inodes[anchors[d]]

\* The digests of the requested paths.
Requested(ps) == {files[p] : p \in {q \in ps : files[q] # NoDigest}}

\* The digests an invocation downloaded.
Gets(z) == {z.log[k][2] : k \in {j \in 1 .. Len(z.log) : z.log[j][1] = "get_file"}}

C30_UuidStable == Cardinality({x[2] : x \in refs_used}) <= 1

\* The state an invocation of `git big drop` leaves.
After_drop == Outcome(Run(LAMBDA st : App_cmd_drop(st)))

\* The invocation ended with the error of _check_depot (a ClickException
\* whose message ends with: run "git big set-depot") and neither changed the
\* disk nor called the storage driver.
RefusedNoDepot(z) ==
    /\ z.status = "nodepot"
    /\ SameDisk(z, Cur)
    /\ z.log = <<>>

\* C31 (Depot unconfigured): with no depot configured, push, drop and every
\* hard pull (with --hard, or with paths) end with the error that names
\* `git big set-depot`, and manifest, working tree, anchors and cache are as
\* they were.
C31_DepotUnconfigured ==
    ~has_depot
    => /\ RefusedNoDepot(After_push)
       /\ RefusedNoDepot(After_drop)
       /\ \A ps \in SUBSET Paths, soft \in BOOLEAN :
             (ps # {} \/ ~soft) => RefusedNoDepot(After_pull(ps, soft))

\* No depot, bar is tracked and linked to its anchor: there is something a
\* push would upload and anchors a full pull would clear.
C31_Witness ==
    /\ ~has_depot
    /\ files[P_bar] # NoDigest
    /\ LinkedTo(Cur, P_bar, files[P_bar])
    /\ After_pull({}, FALSE).status = "nodepot"
    /\ After_push.status = "nodepot"

\* C35 (Soft pull without a depot): with no depot configured a soft pull
\* without paths succeeds and leaves every manifest path whose object is in
\* the cache, and that holds no regular file, linked to its anchor.
C35_SoftPullNoDepot ==
    ~has_depot
    => \A z \in {After_pull({}, TRUE)} :
         (\A p \in Paths : files[p] # NoDigest => working[p].kind # "file")
         => /\ z.status = "ok"
            /\ \A p \in Paths :
                  (files[p] # NoDigest /\ in_cache(Cur, files[p]))
                  => LinkedTo(z, p, files[p])

\* C32 (Atomic persistence): a reader of a destination written through
\* atomic_open sees the complete old content (or no file where there was
\* none) or the complete new content, and when atomic_open is left, normally
\* or by an exception, the temporary file is gone.
C32_AtomicPersistence ==
    /\ \A x \in atom.seen : x \in {atom.old, NewContent}
    /\ atom.pc = "done" => atom.tmp = NoFile

\* The calls of Depot.get and Depot.put on the state as it is.
Got(d) == Depot_get(Cur, d)
Put(d) == Depot_put(Cur, d)

\* The invocation transferred the object of digest d.
Transferred(z, kind, d) == \E k \in 1 .. Len(z.log) : z.log[k] = <<kind, d>>

C34_LivenessReport ==
    \A z \in {After_push} :
        z.status = "ok" /\ EndsWithRefs(z.log)
        => itervalues(files) \subseteq _find_reachable_objects(history)

\* C36 (rm of an untracked path): `rm p` on a path with no manifest entry
\* leaves the manifest as it is and does not delete a file that is at p.
C36_RmUntracked ==
    \A p \in Paths :
        files[p] = NoDigest
        => \A z \in {After_remove(p)} :
               /\ z.files = files
               /\ working[p].kind # "none" => z.working[p].kind # "none"

\* C37 (cp and mv of an untracked source): with a source that has no manifest
\* entry neither command changes the manifest or the working tree: the
\* destination gets no entry and no symlink, the source stays, and nothing
\* is transferred.
C37_UntrackedSource ==
    \A src, dst \in Paths :
        files[src] = NoDigest
        => \A z \in {After_copy(src, dst), After_move(src, dst)} :
               /\ z.status # "ok"
               /\ SameDisk(z, Cur)
               /\ z.log = <<>>

\* A regular file that is not tracked is the source of a cp and of a mv to
\* a free destination, and both stop at Entry.
C37_Witness ==
    \E src, dst \in Paths :
        /\ files[src] = NoDigest
        /\ working[src].kind = "file"
        /\ working[dst].kind = "none"
        /\ After_copy(src, dst).status = "crash"
        /\ After_move(src, dst).status = "crash"

\* The states one command can leave, for every command and every argument;
\* an outcome that only the inode bound produces is left out.
AfterAnyCommand ==
    {z \in {After_add(ps) : ps \in AddArgs}
            \cup {After_remove(p) : p \in Paths}
            \cup {After_unlock(p) : p \in Paths}
            \cup {After_copy(src, dst) : src \in Paths, dst \in Paths}
            \cup {After_move(src, dst) : src \in Paths, dst \in Paths}
            \cup {After_pull(ps, soft) : ps \in SUBSET Paths, soft \in BOOLEAN}
            \cup {After_push, After_drop} :
        z.status # "enospc"}

\* C38 (cache monotonicity): whatever command runs, and however it ends,
\* every cache object of the state before is a cache object afterwards,
\* under the same digest and with the same bytes.
C38_CacheMonotone ==
    cache # [d \in Digests |-> 0]
    => \A z \in AfterAnyCommand :
           \A d \in Digests :
               cache[d] # 0
               => /\ z.cache[d] # 0
                  /\ z.inodes[z.cache[d]].content = inodes[cache[d]].content

\* A cache object with its anchor, and a full pull that clears the anchors
\* directory, an unlock and an rm that are carried out.
C38_Witness ==
    \E d \in Digests, p \in Paths :
        /\ cache[d] # 0
        /\ anchors[d] # 0
        /\ files[p] = d
        /\ is_link(Cur, p)
        /\ After_pull({}, FALSE).status = "ok"
        /\ After_pull({}, FALSE).anchors[d] # 0
        /\ After_unlock(p).working[p].kind = "file"
        /\ After_remove(p).files[p] = NoDigest

\* C39 (cache integrity): in every reachable state the bytes of the cache
\* object stored under digest d hash to d.
C39_CacheIntegrity ==
    \A d \in Digests :
        cache[d] # 0 => compute_digest(inodes[cache[d]].content) = d

====
